---- MODULE Spec2Model ----
(***************************************************************************)
(* ezSCUP: the parameter-sweep index (MCSimulation.launch and              *)
(* MCSimulationParser.access, src/ezSCUP/simulations.py) and the geometry  *)
(* container with its file loaders (Geometry, src/ezSCUP/geometry.py).     *)
(*                                                                         *)
(* Conventions of the model                                                *)
(*  - a Python list or numpy vector is a sequence; Python's 0-based        *)
(*    positions are kept as 0-based integers wherever the code computes    *)
(*    with them (indices, loop counters, grid coordinates);                *)
(*  - an optional argument is a record [given, val]; None is NoArg;        *)
(*  - a temperature is a whole number of kelvins, so int(t) is t;          *)
(*  - a real number of a geometry file is a fixed-point integer (see       *)
(*    Unit below); an exception is the string naming its class, and        *)
(*    "none" stands for a normal return.                                   *)
(***************************************************************************)
EXTENDS Integers, Sequences, FiniteSets, TLC

VARIABLES
    sim,    \* the MCSimulation object (its attributes after launch)
    out,    \* the output folder on disk: subfolders and the setup record
    psr,    \* the MCSimulationParser instance (attributes read by index())
    mcc,    \* MCSimulationParser.parser: the class-level MCConfiguration
    acc,    \* the last access() call: its arguments and how it ended
    geo,    \* the Geometry object
    disk,   \* the geometry files on disk, by name
    res,    \* the last Geometry operation: its name, arguments, the files it
            \* opened, how it ended, and whether the object held non-zero
            \* strains or displacements when it was called
    cfg,    \* ezSCUP.settings: MC_EQUILIBRATION_STEPS as the script set it
    conf,   \* the MCConfiguration instances of a script: their attributes,
            \* the locals of a running load() and its position
    prs     \* MCConfiguration.refp, resp and outp: the three parser objects
            \* of the class, shared by every instance

sweepvars == <<sim, out, psr, mcc, acc>>
geomvars == <<geo, disk, res>>
confvars == <<cfg, conf, prs>>
vars == <<sim, out, psr, mcc, acc, geo, disk, res, cfg, conf, prs>>

(***************************************************************************)
(* Bounds of the model.                                                    *)
(***************************************************************************)
\* longest small temperature list handed to launch
MaxTempLen == 3
\* longest small stress / strain / field list handed to launch
MaxVecLen == 2
\* largest extent of a supercell along one axis
MaxExtent == 2
\* largest number of atoms per unit cell
MaxNats == 4
\* longest list of partial .restart files handed to the averaging
MaxPartials == 2

(***************************************************************************)
(* Optional arguments.                                                     *)
(***************************************************************************)
NoArg == [given |-> FALSE, val |-> <<>>]
Some(v) == [given |-> TRUE, val |-> v]

\* np.zeros(n)
Zeros(n) == [k \in 1..n |-> 0]

(***************************************************************************)
(* "{:d}" and "{:02d}" of a non-negative integer.                           *)
(***************************************************************************)
Digit(d) ==
    CASE d = 0 -> "0" [] d = 1 -> "1" [] d = 2 -> "2" [] d = 3 -> "3"
      [] d = 4 -> "4" [] d = 5 -> "5" [] d = 6 -> "6" [] d = 7 -> "7"
      [] d = 8 -> "8" [] d = 9 -> "9"

RECURSIVE FormatD(_)
FormatD(n) == IF n < 10 THEN Digit(n) ELSE FormatD(n \div 10) \o Digit(n % 10)

\* the width the conf_name format pads every index to
PadWidth == 2

RECURSIVE PadZeros(_, _)
PadZeros(s, w) == IF Len(s) >= w THEN s ELSE PadZeros("0" \o s, w)

\* "{:d}".format(n) in the place of "{:02d}" (a variant of Format02d the
\* eight-digit property must tell apart)
FormatPlain(n) == FormatD(n)

\* "{:02d}".format(n): at least two digits, zero padded, never cut
Format02d(n) == PadZeros(FormatD(n), PadWidth)

\* conf_name = "c{:02d}{:02d}{:02d}{:02d}".format(t, p, s, f)
ConfName(ti, pi, si, fi) ==
    "c" \o Format02d(ti) \o Format02d(pi) \o Format02d(si) \o Format02d(fi)

\* subfolder_name = self.name + "." + conf_name
SubfolderName(name, ti, pi, si, fi) == name \o "." \o ConfName(ti, pi, si, fi)

\* sim_name = self.name + "T{:d}".format(int(t))
SimName(name, t) == name \o "T" \o FormatD(t)

(***************************************************************************)
(* Looking a value up in a registered axis list.                           *)
(***************************************************************************)
\* np.array_equal(a, b): same shape and the same components
ArrayEqual(a, b) == Len(a) = Len(b) /\ \A k \in 1..Len(a) : a[k] = b[k]

\* the smallest element of a non-empty set of integers
Least(S) == CHOOSE i \in S : \A j \in S : i <= j

\* a lookup that answers position 0 for a value the list does not hold
\* (a variant of WhereFirst the unknown-value property must tell apart)
WhereFirstOrZero(list, t) ==
    LET hits == {i \in 1..Len(list) : list[i] = t}
    IN  IF hits = {} THEN 0 ELSE Least(hits) - 1

\* np.where(self.temp == t)[0][0]: the first 0-based position of t in the
\* list, -1 standing for the IndexError of an empty match
WhereFirst(list, t) ==
    LET hits == {i \in 1..Len(list) : list[i] = t}
    IN  IF hits = {} THEN -1 ELSE Least(hits) - 1

\* [np.array_equal(v, x) for x in list].index(True): the first 0-based
\* position of v in the list, -1 standing for the ValueError of no match
IndexTrue(list, v) ==
    LET hits == {i \in 1..Len(list) : ArrayEqual(v, list[i])}
    IN  IF hits = {} THEN -1 ELSE Least(hits) - 1

\* n!
RECURSIVE Factorial(_)
Factorial(n) == IF n <= 1 THEN 1 ELSE n * Factorial(n - 1)

(***************************************************************************)
(* The inputs of the sweep: what a script hands to launch and to access.   *)
(***************************************************************************)
RECURSIVE Pow10(_)
Pow10(w) == IF w = 0 THEN 1 ELSE 10 * Pow10(w - 1)

\* the shortest axis list one of whose indices no longer fits PadWidth digits
LongLen == Pow10(PadWidth) + 1

\* sim.settings["system_name"].value of the fdf file
SystemName == "sim"

\* the i-th temperature of the pool: 20, 40, 60, ... kelvins
TempAt(i) == 20 * i

\* the i-th vector of the pool: (1,0,..), the zero vector, (3,0,..), (4,0,..)
VecAt(dim, i) == [k \in 1..dim |-> IF k = 1 /\ i # 2 THEN i ELSE 0]

TempList(n) == [i \in 1..n |-> TempAt(i)]
VecList(dim, n) == [i \in 1..n |-> VecAt(dim, i)]

\* temp arguments: a list of distinct values and one with a repeated value
TempArgs == {TempList(MaxTempLen), <<TempAt(1), TempAt(1)>>}

\* stress / strain / field arguments: omitted, distinct vectors (the zero
\* vector second), or a repeated vector
VecArgs(dim) ==
    {NoArg, Some(VecList(dim, MaxVecLen)), Some(<<VecAt(dim, 1), VecAt(dim, 1)>>)}

\* a sweep over a temperature list long enough for a three-digit index
LongTempSweep ==
    [temp |-> TempList(LongLen), stress |-> NoArg, strain |-> NoArg, field |-> NoArg]

\* a sweep of distinct values with two long axes (temperature and strain)
LongSweep ==
    [temp |-> TempList(LongLen), stress |-> Some(VecList(6, 2)),
     strain |-> Some(VecList(6, LongLen)), field |-> NoArg]

\* a sweep over the longest temperature list whose indices all fit PadWidth
\* digits
FullTempSweep ==
    [temp |-> TempList(Pow10(PadWidth)), stress |-> NoArg, strain |-> NoArg,
     field |-> NoArg]

LaunchArgs ==
    [temp : TempArgs, stress : VecArgs(6), strain : VecArgs(6), field : VecArgs(3)]
        \cup {LongTempSweep, LongSweep, FullTempSweep}

\* arguments of access: registered and unregistered values of every axis
AccessTemps == {TempAt(2), TempAt(MaxTempLen + 1), TempAt(Pow10(PadWidth)), TempAt(LongLen)}
AccessVecs(dim) == {NoArg, Some(Zeros(dim)), Some(VecAt(dim, 1))}

(***************************************************************************)
(* MCSimulation.launch: the loop over all combinations.                    *)
(***************************************************************************)
\* the k-th combination (k from 1) of the four nested loops, t outermost and
\* f innermost: the 1-based loop positions in the four lists
LoopPos(k, np, ns, nf) ==
    [t |-> ((k - 1) \div (np * ns * nf)) + 1,
     p |-> (((k - 1) \div (ns * nf)) % np) + 1,
     s |-> (((k - 1) \div nf) % ns) + 1,
     f |-> ((k - 1) % nf) + 1]

\* a registration whose default stress vector has the three components of a
\* field (a variant of Registered the default-axis property must tell apart)
RegisteredShort(a) ==
    [temp |-> a.temp,
     stress |-> IF a.stress.given THEN a.stress.val ELSE <<Zeros(3)>>,
     strain |-> IF a.strain.given THEN a.strain.val ELSE <<Zeros(6)>>,
     field |-> IF a.field.given THEN a.field.val ELSE <<Zeros(3)>>]

\* the four axis lists launch registers: an omitted stress, strain or field
\* becomes the list holding one zero vector
Registered(a) ==
    [temp |-> a.temp,
     stress |-> IF a.stress.given THEN a.stress.val ELSE <<Zeros(6)>>,
     strain |-> IF a.strain.given THEN a.strain.val ELSE <<Zeros(6)>>,
     field |-> IF a.field.given THEN a.field.val ELSE <<Zeros(3)>>]

\* temp_counter, stress_counter, strain_counter and field_counter at every
\* loop position: the first position at which the list holds the loop's value
Counters(r) ==
    [t |-> [i \in 1..Len(r.temp) |-> WhereFirst(r.temp, r.temp[i])],
     p |-> [i \in 1..Len(r.stress) |-> IndexTrue(r.stress, r.stress[i])],
     s |-> [i \in 1..Len(r.strain) |-> IndexTrue(r.strain, r.strain[i])],
     f |-> [i \in 1..Len(r.field) |-> IndexTrue(r.field, r.field[i])]]

\* what launch derives for the k-th combination: its four values, its
\* subfolder and the base name of the files the simulator writes
Combination(name, r, cnt, k) ==
    LET pos == LoopPos(k, Len(r.stress), Len(r.strain), Len(r.field))
    IN  [combo |-> <<r.temp[pos.t], r.stress[pos.p], r.strain[pos.s], r.field[pos.f]>>,
         folder |-> SubfolderName(name, cnt.t[pos.t], cnt.p[pos.p],
                                  cnt.s[pos.s], cnt.f[pos.f]),
         base |-> SimName(name, r.temp[pos.t])]

\* nsims = self.temp.size*len(self.strain)*len(self.field)*len(self.stress)
NSims(r) == Len(r.temp) * Len(r.stress) * Len(r.strain) * Len(r.field)

\* the combinations of the whole loop, in loop order
Combinations(name, r) ==
    LET cnt == Counters(r)
    IN  [k \in 1..NSims(r) |-> Combination(name, r, cnt, k)]

\* whether two of the first k subfolder names are equal
Clash(folders, k) == Cardinality({folders[j] : j \in 1..k}) < k

\* the smallest k in lo+1..hi whose first k names clash (no clash in the
\* first lo, a clash in the first hi): the combination whose os.makedirs
\* finds its subfolder already there
RECURSIVE FirstClash(_, _, _)
FirstClash(folders, lo, hi) ==
    IF hi - lo <= 1 THEN hi
    ELSE LET mid == (lo + hi) \div 2
         IN  IF Clash(folders, mid) THEN FirstClash(folders, lo, mid)
             ELSE FirstClash(folders, mid, hi)

\* the combination at which os.makedirs(output_folder) raises
\* FileExistsError, 0 when every subfolder is new
AbortAt(folders) ==
    IF Clash(folders, Len(folders)) THEN FirstClash(folders, 1, Len(folders)) ELSE 0

\* the MC steps at which the simulator writes a partial file: every
\* n_write_mc steps up to mc_nsweeps, which launch takes from
\* cfg.MC_STEP_INTERVAL and cfg.MC_STEPS
Simulated(settings) ==
    {k * settings.MC_STEP_INTERVAL :
        k \in 1..(settings.MC_STEPS \div settings.MC_STEP_INTERVAL)}

\* the subfolder of combination r after the files named after r.base were
\* moved into it: the steps of its partial files, and the number the values
\* in its files are made from
Stored(r) ==
    [combo |-> r.combo, folder |-> r.folder, base |-> r.base,
     seed |-> r.combo[1], steps |-> Simulated(cfg)]

\* the setup record pickled at the end of launch
SetupRecord(s) ==
    [name |-> s.name, supercell |-> s.supercell, elements |-> s.elements,
     nats |-> s.nats, temp |-> s.temp, strain |-> s.strain,
     stress |-> s.stress, field |-> s.field]

NoSetup == [given |-> FALSE, val |-> <<>>]

\* a launch that pickles the setup record although the loop was aborted (a
\* variant of LaunchEnd the setup-record property must tell apart)
LaunchEndSavesAlways(s, a, r, combos, abort) ==
    LET self == [s EXCEPT !.launched = TRUE, !.args = a, !.name = SystemName,
                          !.temp = r.temp, !.stress = r.stress,
                          !.strain = r.strain, !.field = r.field,
                          !.simulated = IF abort = 0 THEN Len(combos) ELSE abort,
                          !.exc = IF abort = 0 THEN "none" ELSE "FileExistsError"]
        stored == IF abort = 0 THEN Len(combos) ELSE abort - 1
    IN  [sim |-> self,
         out |-> [exists |-> TRUE,
                  folders |-> {Stored(combos[k]) : k \in 1..stored},
                  setup |-> Some(SetupRecord(self))]]

\* the MCSimulation object and the output folder when launch ends: the
\* loop ran to the end (abort = 0) or os.makedirs raised at combination abort,
\* after that combination's simulation and before its files were moved
LaunchEnd(s, a, r, combos, abort) ==
    LET self == [s EXCEPT !.launched = TRUE, !.args = a, !.name = SystemName,
                          !.temp = r.temp, !.stress = r.stress,
                          !.strain = r.strain, !.field = r.field,
                          !.simulated = IF abort = 0 THEN Len(combos) ELSE abort,
                          !.exc = IF abort = 0 THEN "none" ELSE "FileExistsError"]
        stored == IF abort = 0 THEN Len(combos) ELSE abort - 1
    IN  [sim |-> self,
         out |-> [exists |-> TRUE,
                  folders |-> {Stored(combos[k]) : k \in 1..stored},
                  setup |-> IF abort = 0 THEN Some(SetupRecord(self)) ELSE NoSetup]]

\* launch(fdf, temp, stress, strain, field) in a directory that has no
\* output folder yet
Launch(a) ==
    /\ ~out.exists
    /\ ~sim.launched
    /\ \E r \in {Registered(a)} :
       \E combos \in {Combinations(SystemName, r)} :
       \E abort \in {AbortAt([k \in 1..Len(combos) |-> combos[k].folder])} :
       \E end \in {LaunchEnd(sim, a, r, combos, abort)} :
          /\ sim' = end.sim
          /\ out' = end.out
    /\ UNCHANGED <<psr, mcc, acc, geomvars, confvars>>

(***************************************************************************)
(* MCConfiguration.load and lattice_output (src/ezSCUP/simulations.py).    *)
(*                                                                         *)
(* A file name is a string; the tests, slices and conversions load makes   *)
(* on it are computed character by character.  REFParser, RestartParser    *)
(* and OutParser are not part of the sources at hand: a parser is modelled *)
(* as an object whose load(file) replaces its attributes by the content of *)
(* that file.  The three parsers are attributes of the class, so every     *)
(* instance reaches the same three objects.                                *)
(***************************************************************************)
\* sub in s
Contains(s, sub) ==
    \E i \in 1..(Len(s) - Len(sub) + 1) : SubSeq(s, i, i + Len(sub) - 1) = sub

\* whether int(s) accepts s (signs, blanks and underscores do not occur in
\* the file names of the model)
IsNumber(s) == Len(s) > 0 /\ \A i \in 1..Len(s) : SubSeq(s, i, i) \in {Digit(d) : d \in 0..9}

\* int(s) of a string of digits
RECURSIVE IntOf(_)
IntOf(s) ==
    IF Len(s) = 0 THEN 0
    ELSE 10 * IntOf(SubSeq(s, 1, Len(s) - 1)) + (CHOOSE d \in 0..9 : Digit(d) = SubSeq(s, Len(s), Len(s)))

\* the characters of the file names, in the order of their code points
CodeOrder == ".0123456789AEFILNRT_aeilmnoprstux"

Ord(c) == CHOOSE i \in 1..Len(CodeOrder) : SubSeq(CodeOrder, i, i) = c

\* a < b for two strings that agree before position i: the first character
\* in which they differ decides, and a proper prefix is the smaller
RECURSIVE NameLessFrom(_, _, _)
NameLessFrom(a, b, i) ==
    IF i > Len(b) THEN FALSE
    ELSE IF i > Len(a) THEN TRUE
    ELSE IF SubSeq(a, i, i) = SubSeq(b, i, i) THEN NameLessFrom(a, b, i + 1)
    ELSE Ord(SubSeq(a, i, i)) < Ord(SubSeq(b, i, i))

\* a < b for two strings, as sorted() compares them
NameLess(a, b) == NameLessFrom(a, b, 1)

\* sorted(S) of a set of distinct names
RECURSIVE Sorted(_)
Sorted(S) ==
    IF S = {} THEN <<>>
    ELSE LET least == CHOOSE n \in S : \A o \in S : n = o \/ NameLess(n, o)
         IN  <<least>> \o Sorted(S \ {least})

\* int(p[len(base_sim_name)+10:-8]): the step number in a file name
StepText(p, base_sim_name) ==
    IF Len(base_sim_name) + 11 > Len(p) - 8 THEN ""
    ELSE SubSeq(p, Len(base_sim_name) + 11, Len(p) - 8)

\* the largest element of a non-empty set of integers
Largest(S) == CHOOSE i \in S : \A j \in S : j <= i

(***************************************************************************)
(* The settings module and the configuration folders of a finished sweep   *)
(* over four temperatures.                                                 *)
(***************************************************************************)
\* cfg.MC_EQUILIBRATION_STEPS when ezSCUP.simulations is imported, which the
\* class attribute step_threshold keeps whatever a script sets afterwards
DefaultEquilibrationSteps == 0

\* the folders, by the temperature index of their name
FolderIds == 0..3

\* the MC steps at which the simulator wrote a partial file into folder i:
\* three snapshots, two snapshots, none, and one snapshot of step 0
StepsIn(i) ==
    CASE i = 0 -> {20, 50, 100}
      [] i = 1 -> {10, 200}
      [] i = 2 -> {}
      [] i = 3 -> {0}

\* the name of the partial file of a step
PartialName(base, step) ==
    base \o "_partial_n" \o PadZeros(FormatD(step), 7) \o ".restart"

\* os.listdir(folder) of a folder that holds the files called after base:
\* the partial files, the output file, the final geometry files, and a file
\* that is no .restart file
Listing(base, steps) ==
    {PartialName(base, s) : s \in steps}
        \cup {base \o ".out", base \o "_FINAL.REF",
              base \o "_FINAL.restart", base \o "_partial_n.txt"}

\* folder i on disk: its name, the base name of its files, the steps of its
\* partial files, and the number its values are made from
Folder(i) ==
    [folder |-> SubfolderName(SystemName, i, 0, 0, 0),
     base |-> SimName(SystemName, TempAt(i + 1)), seed |-> i, steps |-> StepsIn(i)]

\* the numbers in the files are multiples of a unit that every number of
\* snapshots of a folder divides
SampleUnit == Factorial(Largest({Cardinality(StepsIn(i)) : i \in FolderIds}))

Sample(seed, step) == SampleUnit * (1000 * (seed + 1) + step)

\* what REFParser.load reads from the _FINAL.REF file of folder d: the
\* topology, and a new cells object
ReferenceOf(d) ==
    [supercell |-> <<1, 1, 1>>, elements |-> <<"Sr", "Ti", "O">>, nats |-> 1,
     cells |-> [pos |-> <<Sample(d.seed, 1), Sample(d.seed, 2), Sample(d.seed, 3)>>,
                displacements |-> <<>>, special |-> <<>>]]

\* what RestartParser.load reads from the partial file called name
SnapshotOf(d, name) ==
    LET step == CHOOSE s \in d.steps : PartialName(d.base, s) = name
    IN  [strains |-> [k \in 1..6 |-> Sample(d.seed, step) * k],
         cells |-> [displacements |->
                       <<Sample(d.seed, step), 2 * Sample(d.seed, step),
                         0 - Sample(d.seed, step)>>]]

(***************************************************************************)
(* The statements of load, in blocks between which another thread of the   *)
(* caller can run.  A block maps the instance c and the parsers p to what  *)
(* they are after it.                                                      *)
(*                                                                         *)
(* self.cells = self.refp.cells binds the instance to the object of the    *)
(* parser, so the cells objects live in p.heap and an instance or a parser *)
(* holds the name of one: the object REFParser.load makes during the load  *)
(* of an instance is named after that instance (c.self), and replaces the  *)
(* object an earlier load of the same instance made.  The containers the   *)
(* two classes start with are never written to.                            *)
(***************************************************************************)
\* the cells object called id; the container a class starts with is empty
CellsAt(p, id) ==
    IF id \in DOMAIN p.heap THEN p.heap[id]
    ELSE [pos |-> <<>>, displacements |-> <<>>, special |-> <<>>]

\* a fresh instance: the class attributes, and no load running
NewInstance(self) ==
    [self |-> self,
     name |-> "", folder_name |-> "", folder_path |-> "", partials |-> <<>>,
     nmeas |-> 0, total_steps |-> 0, step_threshold |-> DefaultEquilibrationSteps,
     supercell |-> <<>>, elements |-> <<>>, nats |-> 0,
     strains |-> <<>>, cells |-> "MCConfiguration.cells",
     special |-> <<>>,
     pc |-> "idle", folder |-> [folder |-> "", base |-> "", seed |-> 0, steps |-> {}], selected |-> <<>>, i |-> 0, loaded |-> <<>>,
     outputs |-> 0, exc |-> "none"]

\* the parsers before any load
NewParsers ==
    [refp |-> [supercell |-> <<>>, elements |-> <<>>, nats |-> 0,
               cells |-> "REFParser.cells"],
     resp |-> [strains |-> <<>>, cells |-> [displacements |-> <<>>]],
     outp |-> [file |-> ""],
     heap |-> [o \in {} |-> <<>>]]

\* the effective threshold when the configured one is not below total_steps
\* (a variant of EffectiveThreshold that keeps a threshold equal to
\* total_steps)
EffectiveThresholdStrict(total_steps, configured) ==
    IF total_steps < configured THEN (2 * total_steps) \div 10 ELSE configured

\* a threshold that stays the configured one whatever total_steps is (a
\* variant of EffectiveThreshold the selection property must tell apart)
EffectiveThresholdKept(total_steps, configured) == configured

\* self.step_threshold after the check of total_steps: int(0.2*total_steps)
\* when total_steps <= the configured threshold
EffectiveThreshold(total_steps, configured) ==
    IF total_steps <= configured THEN (2 * total_steps) \div 10 ELSE configured

\* a selection that keeps the file whose step equals the threshold (a
\* variant of SelectAbove)
SelectFrom(partials, base, threshold) ==
    LET Kept(p) == IntOf(StepText(p, base)) >= threshold
    IN  SelectSeq(partials, Kept)

\* [p for i, p in enumerate(partials) if step_filter[i]]
SelectAbove(partials, base, threshold) ==
    LET Kept(p) == IntOf(StepText(p, base)) > threshold
    IN  SelectSeq(partials, Kept)

\* the partial .restart files of a listing, sorted
PartialsOf(names) ==
    Sorted({k \in names : Contains(k, "partial") /\ Contains(k, ".restart")})

\* load(d.folder, base_sim_name), first block: the names, the listing of
\* folder d, total_steps, the threshold and the selection; max() of no step
\* raises ValueError before the threshold is assigned
SelectBlock(c, d, base_sim_name, configured) ==
    LET partials == PartialsOf(Listing(d.base, d.steps))
        named == [c EXCEPT !.name = base_sim_name,
                           !.folder_name = d.folder,
                           !.folder_path = "output/" \o d.folder,
                           !.partials = [k \in 1..Len(partials) |->
                                            "output/" \o d.folder \o "/" \o partials[k]],
                           !.folder = d,
                           !.selected = <<>>, !.loaded = <<>>, !.i = 0,
                           !.outputs = 0, !.exc = "none"]
        steps == {StepText(partials[k], base_sim_name) : k \in 1..Len(partials)}
    IN  IF steps = {} \/ \E t \in steps : ~IsNumber(t)
          THEN [named EXCEPT !.pc = "failed", !.exc = "ValueError"]
        ELSE LET total == Largest({IntOf(t) : t \in steps})
                 threshold == EffectiveThreshold(total, configured)
                 selected == SelectAbove(partials, base_sim_name, threshold)
             IN  [named EXCEPT !.total_steps = total,
                               !.step_threshold = threshold,
                               !.nmeas = Len(selected),
                               !.selected = selected,
                               !.pc = "refp"]

\* self.refp.load(... "_FINAL.REF"): the parser takes the topology of the
\* file and a new cells object
RefBlock(c, p) ==
    [c |-> [c EXCEPT !.pc = "copy"],
     p |-> [p EXCEPT !.refp = [ReferenceOf(c.folder) EXCEPT !.cells = c.self],
                     !.heap = (c.self :> ReferenceOf(c.folder).cells) @@ p.heap]]

\* the topology taken from refp, self.cells bound to the object of refp,
\* the strains and the displacements of that object set to zero
CopyBlock(c, p) ==
    [c |-> [c EXCEPT !.supercell = p.refp.supercell,
                     !.elements = p.refp.elements,
                     !.nats = p.refp.nats,
                     !.cells = p.refp.cells,
                     !.strains = Zeros(6),
                     !.special = [k \in 1..6 |-> "none"],
                     !.i = 1,
                     !.pc = IF c.selected = <<>> THEN "divide" ELSE "resp"],
     p |-> [p EXCEPT !.heap[p.refp.cells].displacements = Zeros(3),
                     !.heap[p.refp.cells].special = [k \in 1..3 |-> "none"]]]

\* self.resp.load(os.path.join(folder, f)) of the loop over the selection
RespBlock(c, p) ==
    [c |-> [c EXCEPT !.loaded = Append(c.loaded, c.selected[c.i]), !.pc = "add"],
     p |-> [p EXCEPT !.resp = SnapshotOf(c.folder, c.selected[c.i])]]

\* a + b, component by component
Added(a, b) == [k \in 1..Len(a) |-> a[k] + b[k]]

\* the strains of resp added to the strains of the instance, its
\* displacements added in place to the object self.cells is bound to; a
\* component that is inf or nan stays what it is
AddBlock(c, p) ==
    [c |-> [c EXCEPT !.strains = Added(c.strains, p.resp.strains),
                     !.i = c.i + 1,
                     !.pc = IF c.i + 1 > Len(c.selected) THEN "divide" ELSE "resp"],
     p |-> [p EXCEPT !.heap[c.cells].displacements =
                         [k \in 1..3 |->
                             IF p.heap[c.cells].special[k] = "none"
                               THEN @[k] + p.resp.cells.displacements[k] ELSE 0]]]

\* v / n of numpy, component by component, where special[k] names what a
\* component is when it is no number: x / 0 raises nothing and is inf or
\* -inf by the sign of x, nan for 0 / 0; inf, -inf and nan divided stay
\* what they are
Divided(v, special, n) ==
    [val |-> [k \in 1..Len(v) |->
                 IF special[k] = "none" /\ n # 0 THEN v[k] \div n ELSE 0],
     special |-> [k \in 1..Len(v) |->
                     IF special[k] # "none" \/ n # 0 THEN special[k]
                     ELSE IF v[k] > 0 THEN "inf"
                     ELSE IF v[k] < 0 THEN "-inf"
                     ELSE "nan"]]

\* the sums divided by nmeas, the displacements in the object self.cells is
\* bound to, whatever instance added to them
DivideBlock(c, p) ==
    LET strains == Divided(c.strains, c.special, c.nmeas)
        cells == Divided(p.heap[c.cells].displacements, p.heap[c.cells].special, c.nmeas)
    IN  [c |-> [c EXCEPT !.strains = strains.val, !.special = strains.special,
                         !.pc = "done"],
         p |-> [p EXCEPT !.heap[c.cells].displacements = cells.val,
                         !.heap[c.cells].special = cells.special]]

\* the block a running load is at
LoadBlock(c, p) ==
    CASE c.pc = "refp" -> RefBlock(c, p)
      [] c.pc = "copy" -> CopyBlock(c, p)
      [] c.pc = "resp" -> RespBlock(c, p)
      [] c.pc = "add" -> AddBlock(c, p)
      [] c.pc = "divide" -> DivideBlock(c, p)

\* a load run from block to block with nothing in between: the instance and
\* the parsers when it ends
RECURSIVE RunLoad(_, _)
RunLoad(c, p) ==
    IF c.pc \in {"done", "failed"} THEN [c |-> c, p |-> p]
    ELSE LET after == LoadBlock(c, p) IN RunLoad(after.c, after.p)

\* load(folder_name, base_sim_name) of instance c, from the first statement
\* to the last, where folders are the subfolders of output; os.listdir of a
\* folder that is not there raises FileNotFoundError
load(c, p, folders, folder_name, base_sim_name, configured) ==
    IF \E d \in folders : d.folder = folder_name
      THEN LET d == CHOOSE d \in folders : d.folder = folder_name
           IN  RunLoad(SelectBlock(c, d, base_sim_name, configured), p)
    ELSE [c |-> [c EXCEPT !.name = base_sim_name,
                          !.folder_name = folder_name,
                          !.folder_path = "output/" \o folder_name,
                          !.pc = "failed",
                          !.exc = "FileNotFoundError"],
          p |-> p]

\* load(folder, base) of folder d on a fresh instance, alone
LoadAlone(d, configured) ==
    RunLoad(SelectBlock(NewInstance("alone"), d, d.base, configured), NewParsers)

\* lattice_output(): the threshold is set to the configured one again and
\* the output file is parsed
lattice_output(c, p, configured) ==
    [c |-> [c EXCEPT !.step_threshold = configured, !.outputs = c.outputs + 1],
     p |-> [p EXCEPT !.outp = [file |-> c.folder_path \o "/" \o c.name \o ".out"]]]

(***************************************************************************)
(* MCSimulationParser: the constructor with index(), and access().         *)
(***************************************************************************)
NoParser ==
    [made |-> FALSE, exc |-> "none", name |-> "", temp |-> <<>>,
     stress |-> <<>>, strain |-> <<>>, field |-> <<>>]

\* MCSimulationParser(): index() reads the setup record of the output folder
ParserInit ==
    /\ psr' = IF ~out.exists
                THEN [NoParser EXCEPT !.exc = "OutputFolderDoesNotExist"]
              ELSE IF ~out.setup.given
                THEN [NoParser EXCEPT !.exc = "FileNotFoundError"]
              ELSE [made |-> TRUE, exc |-> "none", name |-> out.setup.val.name,
                    temp |-> out.setup.val.temp, stress |-> out.setup.val.stress,
                    strain |-> out.setup.val.strain, field |-> out.setup.val.field]
    /\ UNCHANGED <<sim, out, mcc, acc, geomvars, confvars>>

\* access(t, p, s, f): the indices of the four values, and the load of
\* their subfolder by the parser object of the class
Access(t, p, s, f) ==
    /\ psr.made
    /\ LET pv == IF p.given THEN p.val ELSE Zeros(6)
           sv == IF s.given THEN s.val ELSE Zeros(6)
           fv == IF f.given THEN f.val ELSE Zeros(3)
           t_index == WhereFirst(psr.temp, t)
           p_index == IndexTrue(psr.stress, pv)
           s_index == IndexTrue(psr.strain, sv)
           f_index == IndexTrue(psr.field, fv)
           subfolder_name == SubfolderName(psr.name, t_index, p_index, s_index, f_index)
           sim_name == SimName(psr.name, t)
       IN  IF t_index < 0 \/ p_index < 0 \/ s_index < 0 \/ f_index < 0
             THEN /\ acc' = [called |-> TRUE, t |-> t, p |-> p, s |-> s, f |-> f,
                             exc |-> "InvalidMCConfiguration", idx |-> <<>>]
                  /\ mcc' = mcc
                  /\ prs' = prs
             ELSE \E end \in {load(mcc, prs, out.folders, subfolder_name, sim_name,
                                    cfg.MC_EQUILIBRATION_STEPS)} :
                  /\ acc' = [called |-> TRUE, t |-> t, p |-> p, s |-> s, f |-> f,
                             exc |-> end.c.exc,
                             idx |-> <<t_index, p_index, s_index, f_index>>]
                  /\ mcc' = end.c
                  /\ prs' = end.p
    /\ UNCHANGED <<sim, out, psr, geomvars, cfg, conf>>

(***************************************************************************)
(* launch in a directory that may hold the output folder of an earlier     *)
(* run.                                                                    *)
(***************************************************************************)
\* sweeps short enough to be launched again and again
RelaunchArgs ==
    [temp : TempArgs, stress : VecArgs(6), strain : {NoArg}, field : VecArgs(3)]

\* a launch that keeps what the output folder held when OVERWRITE is set (a
\* variant of launch the overwrite property must tell apart)
launch_keeps_folder(s, o, a) ==
    LET r == Registered(a)
        combos == Combinations(SystemName, r)
        abort == AbortAt([k \in 1..Len(combos) |-> combos[k].folder])
        end == LaunchEnd(s, a, r, combos, abort)
    IN  IF o.exists /\ ~s.OVERWRITE
          THEN [sim |-> [s EXCEPT !.launched = TRUE, !.args = a, !.temp = r.temp,
                                  !.stress = r.stress, !.strain = r.strain,
                                  !.field = r.field, !.found = TRUE],
                out |-> o]
        ELSE [sim |-> [end.sim EXCEPT !.found = o.exists],
              out |-> [end.out EXCEPT !.folders = @ \cup o.folders]]

\* launch(fdf, temp, stress, strain, field) on the object s with the output
\* folder o: os.makedirs of an existing folder raises FileExistsError (found),
\* and launch returns 0 (OVERWRITE False) or removes the folder and goes on
launch(s, o, a) ==
    LET r == Registered(a)
        combos == Combinations(SystemName, r)
        abort == AbortAt([k \in 1..Len(combos) |-> combos[k].folder])
    IN  IF o.exists /\ ~s.OVERWRITE
          THEN [sim |-> [s EXCEPT !.launched = TRUE, !.args = a, !.temp = r.temp,
                                  !.stress = r.stress, !.strain = r.strain,
                                  !.field = r.field, !.found = TRUE],
                out |-> o]
        ELSE LET end == LaunchEnd(s, a, r, combos, abort)
             IN  [sim |-> [end.sim EXCEPT !.found = o.exists], out |-> end.out]

(***************************************************************************)
(* The sweep: launch once, construct the parser, access configurations.    *)
(***************************************************************************)
\* MCSimulation(supercell, elements, nats) before launch
NewSimulation ==
    [launched |-> FALSE, args |-> [temp |-> <<>>, stress |-> NoArg,
                                   strain |-> NoArg, field |-> NoArg],
     supercell |-> <<1, 1, 1>>, elements |-> <<"Sr", "Ti", "O">>, nats |-> 5,
     name |-> "", temp |-> <<>>, stress |-> <<>>, strain |-> <<>>, field |-> <<>>,
     simulated |-> 0, exc |-> "none", OVERWRITE |-> FALSE, found |-> FALSE]

NoAccess ==
    [called |-> FALSE, t |-> 0, p |-> NoArg, s |-> NoArg, f |-> NoArg,
     exc |-> "none", idx |-> <<>>]

SweepInit ==
    /\ sim = NewSimulation
    /\ out = [exists |-> FALSE, folders |-> {}, setup |-> NoSetup]
    /\ psr = NoParser
    /\ mcc = NewInstance("parser")
    /\ acc = NoAccess

\* MCSimulation(supercell, elements, nats, OVERWRITE).launch(...)
Relaunch(a, overwrite) ==
    /\ \E end \in {launch([NewSimulation EXCEPT !.OVERWRITE = overwrite], out, a)} :
          /\ sim' = end.sim
          /\ out' = end.out
    /\ UNCHANGED <<psr, mcc, acc, geomvars, confvars>>

(***************************************************************************)
(* Geometry (src/ezSCUP/geometry.py).                                      *)
(*                                                                         *)
(* A real number is a fixed-point integer.  Unit is a multiple of every    *)
(* N <= MaxPartials, and the numbers of the files on disk are multiples of *)
(* Unit, so that value / npartials is exact in the averaging.              *)
(***************************************************************************)
Unit == Factorial(MaxPartials)

\* the index set of an array of shape [sc[0], sc[1], sc[2], nats]
Slots(sc, nats) ==
    (0..(sc[1] - 1)) \X (0..(sc[2] - 1)) \X (0..(sc[3] - 1)) \X (0..(nats - 1))

\* np.zeros([sc[0], sc[1], sc[2], nats, 3])
ZeroGrid(sc, nats) == [s \in Slots(sc, nats) |-> Zeros(3)]

\* positions, lat_vectors and lat_constants before a reference is loaded
None == [given |-> FALSE, val |-> <<>>]

\* a constructor that takes the first extent for the number of cells (a
\* variant of NewGeometry the topology property must tell apart)
NewGeometryFlat(supercell, species, nats) ==
    [supercell |-> supercell,
     ncells |-> supercell[1],
     species |-> species,
     nels |-> Len(species),
     nats |-> nats,
     strains |-> Zeros(6),
     lat_vectors |-> None,
     lat_constants |-> None,
     positions |-> None,
     displacements |-> ZeroGrid(supercell, nats)]

\* Geometry(supercell, species, nats)
NewGeometry(supercell, species, nats) ==
    [supercell |-> supercell,
     ncells |-> supercell[1] * supercell[2] * supercell[3],
     species |-> species,
     nels |-> Len(species),
     nats |-> nats,
     strains |-> Zeros(6),
     lat_vectors |-> None,
     lat_constants |-> None,
     positions |-> None,
     displacements |-> ZeroGrid(supercell, nats)]

\* reset_geom()
reset_geom(g) ==
    [g EXCEPT !.strains = Zeros(6),
              !.displacements = ZeroGrid(g.supercell, g.nats)]

(***************************************************************************)
(* A geometry file is the token lists of its lines: line 1 (supercell),    *)
(* line 2 (nats, nels), line 3 (species labels), line 4 (strains or        *)
(* lattice vectors), then the data rows.                                   *)
(***************************************************************************)
\* the elements of a list, as set(...) takes them
SetOf(list) == {list[i] : i \in 1..Len(list)}

\* a comparison of the first supercell extent only (a variant of
\* SupercellAgrees the header property must tell apart)
SupercellAgreesFirst(g, f) == g.supercell[1] = f.supercell[1]

\* np.all(self.supercell == rsupercell) for a three-number first line
SupercellAgrees(g, f) ==
    \A i \in 1..3 : g.supercell[i] = f.supercell[i]

\* the three header checks every loader makes before it reads the numbers;
\* TRUE when one of them raises GeometryNotMatching
HeaderRejected(g, f) ==
    IF ~SupercellAgrees(g, f) THEN TRUE
    ELSE IF (f.counts[1] # g.nats) \/ (f.counts[2] # g.nels) THEN TRUE
    ELSE ~(SetOf(f.species) = SetOf(g.species))

\* the data row the loops read for slot (x, y, z, j): x outermost, then y,
\* then z, then the atom, one f.readline() each
RowOf(g, s) ==
    ((s[1] * g.supercell[2] + s[2]) * g.supercell[3] + s[3]) * g.nats + s[4] + 1

\* f.readline().split() of the r-th data row: [] past the end of the file
RowTokens(f, r) == IF r <= Len(f.rows) THEN f.rows[r] ELSE <<>>

\* line[5:]
RowTail(line) == IF Len(line) > 5 THEN SubSeq(line, 6, Len(line)) ELSE <<>>

\* whether array[x,y,z,j,:] = v is accepted: v has the three components or
\* one that numpy broadcasts
Fits(v, n) == Len(v) = n \/ Len(v) = 1

\* an assignment that stores v as it is (a variant of Broadcast the grid
\* property must tell apart)
BroadcastNot(v, n) == v

\* v broadcast to n components
Broadcast(v, n) == [k \in 1..n |-> IF Len(v) = 1 THEN v[1] ELSE v[k]]

\* the number of data rows the loops assign before one raises ValueError
\* (all of them: the number of slots)
RowsRead(g, f) ==
    LET bad == {r \in 1..(g.ncells * g.nats) : ~Fits(RowTail(RowTokens(f, r)), 3)}
    IN  IF bad = {} THEN g.ncells * g.nats ELSE Least(bad) - 1

\* the array after the loops stored the rows they read into it
StoreRows(g, f, old) ==
    LET n == RowsRead(g, f)
    IN  [s \in Slots(g.supercell, g.nats) |->
            IF RowOf(g, s) <= n
              THEN Broadcast(RowTail(RowTokens(f, RowOf(g, s))), 3)
              ELSE old[s]]

\* the exception of the row loops
RowsExc(g, f) == IF RowsRead(g, f) = g.ncells * g.nats THEN "none" ELSE "ValueError"

\* a load_restart that validates the header before it resets the object (a
\* variant the rejection properties must tell apart)
load_restart_checks_first(g, d, name) ==
    LET g0 == reset_geom(g)
        f == d[name]
    IN  IF ~f.exists
          THEN [geo |-> g, exc |-> "FileNotFoundError", opened |-> <<name>>]
        ELSE IF HeaderRejected(g, f)
          THEN [geo |-> g, exc |-> "GeometryNotMatching", opened |-> <<name>>]
        ELSE [geo |-> [g0 EXCEPT !.strains = f.vec,
                                 !.displacements = StoreRows(g0, f, g0.displacements)],
              exc |-> RowsExc(g0, f), opened |-> <<name>>]

\* load_restart(restart_file): the object and the exception it ends with,
\* and the files it called open() on
load_restart(g, d, name) ==
    LET g0 == reset_geom(g)
        f == d[name]
    IN  IF ~f.exists
          THEN [geo |-> g0, exc |-> "FileNotFoundError", opened |-> <<name>>]
        ELSE IF HeaderRejected(g0, f)
          THEN [geo |-> g0, exc |-> "GeometryNotMatching", opened |-> <<name>>]
        ELSE [geo |-> [g0 EXCEPT !.strains = f.vec,
                                 !.displacements = StoreRows(g0, f, g0.displacements)],
              exc |-> RowsExc(g0, f), opened |-> <<name>>]

\* the greatest common divisor of two naturals, not both zero
RECURSIVE Gcd(_, _)
Gcd(a, b) == IF b = 0 THEN a ELSE Gcd(b, a % b)

\* n / d for d > 0, the true division of two numbers: the exact quotient, as
\* a fraction in lowest terms (8.5 is [num |-> 17, den |-> 2])
Quotient(n, d) ==
    LET g == Gcd(IF n < 0 THEN 0 - n ELSE n, d)
    IN  [num |-> n \div g, den |-> d \div g]

\* lat_constants: the diagonal of lat_vectors, each divided by the supercell
\* extent of its axis
LatConstants(g, v) == [i \in 1..3 |-> Quotient(v[4 * (i - 1) + 1], g.supercell[i])]

\* a load_reference that stores the lattice vectors of the file before it
\* validates the header (a variant the rejection frame must tell apart)
load_reference_reads_first(g, d, name) ==
    LET f == d[name]
    IN  IF ~f.exists
          THEN [geo |-> g, exc |-> "FileNotFoundError", opened |-> <<name>>]
        ELSE IF HeaderRejected(g, f)
          THEN [geo |-> [g EXCEPT !.lat_vectors = Some(f.vec)],
                exc |-> "GeometryNotMatching", opened |-> <<name>>]
        ELSE [geo |-> [g EXCEPT !.lat_vectors = Some(f.vec),
                                !.lat_constants = Some(LatConstants(g, f.vec)),
                                !.positions =
                                    Some(StoreRows(g, f, ZeroGrid(g.supercell, g.nats)))],
              exc |-> RowsExc(g, f), opened |-> <<name>>]

\* load_reference(reference_file)
load_reference(g, d, name) ==
    LET f == d[name]
    IN  IF ~f.exists
          THEN [geo |-> g, exc |-> "FileNotFoundError", opened |-> <<name>>]
        ELSE IF HeaderRejected(g, f)
          THEN [geo |-> g, exc |-> "GeometryNotMatching", opened |-> <<name>>]
        ELSE IF Len(f.vec) < 9
          THEN [geo |-> [g EXCEPT !.lat_vectors = Some(f.vec)], exc |-> "IndexError",
                opened |-> <<name>>]
        ELSE [geo |-> [g EXCEPT !.lat_vectors = Some(f.vec),
                                !.lat_constants = Some(LatConstants(g, f.vec)),
                                !.positions =
                                    Some(StoreRows(g, f, ZeroGrid(g.supercell, g.nats)))],
              exc |-> RowsExc(g, f), opened |-> <<name>>]

\* a / npartials, component by component
Over(v, n) == [k \in 1..Len(v) |-> v[k] \div n]

\* a + b, component by component (b broadcast when it has one component)
Plus(a, b) == [k \in 1..Len(a) |-> a[k] + Broadcast(b, Len(a))[k]]

\* one pass of the loop over the partials: file p is validated and its
\* strains and displacements, divided by npartials, are added to the object
AddPartial(g, f, npartials) ==
    IF ~f.exists THEN [geo |-> g, exc |-> "FileNotFoundError"]
    ELSE IF HeaderRejected(g, f) THEN [geo |-> g, exc |-> "GeometryNotMatching"]
    ELSE IF ~Fits(f.vec, 6) THEN [geo |-> g, exc |-> "ValueError"]
    ELSE LET n == RowsRead(g, f)
         IN  [geo |-> [g EXCEPT
                  !.strains = Plus(g.strains, Over(f.vec, npartials)),
                  !.displacements =
                      [s \in Slots(g.supercell, g.nats) |->
                          IF RowOf(g, s) <= n
                            THEN Plus(g.displacements[s],
                                      Over(RowTail(RowTokens(f, RowOf(g, s))), npartials))
                            ELSE g.displacements[s]]],
              exc |-> RowsExc(g, f)]

\* the loop over partials[i..]: it ends with the first exception, having
\* opened the files up to that one (step is one pass, evaluated once)
RECURSIVE AddPartials(_, _, _, _)
AddPartials(g, d, partials, i) ==
    IF i > Len(partials) THEN [geo |-> g, exc |-> "none", opened |-> partials]
    ELSE CHOOSE end \in
             {IF step.exc # "none"
                THEN [geo |-> step.geo, exc |-> step.exc,
                      opened |-> SubSeq(partials, 1, i)]
                ELSE AddPartials(step.geo, d, partials, i + 1) :
                  step \in {AddPartial(g, d[partials[i]], Len(partials))}} : TRUE

\* an averaging that adds to what the object holds instead of resetting it
\* first (a variant the averaging property must tell apart)
load_equilibrium_displacements_no_reset(g, d, partials) ==
    IF Len(partials) = 0
      THEN [geo |-> reset_geom(g), exc |-> "NotEnoughPartials", opened |-> <<>>]
    ELSE AddPartials(g, d, partials, 1)

\* an averaging that does not look at the length of the list (a variant the
\* empty-list property must tell apart)
load_equilibrium_displacements_unchecked(g, d, partials) ==
    AddPartials(reset_geom(g), d, partials, 1)

\* load_equilibrium_displacements(partials)
load_equilibrium_displacements(g, d, partials) ==
    LET g0 == reset_geom(g)
    IN  IF Len(partials) = 0
          THEN [geo |-> g0, exc |-> "NotEnoughPartials", opened |-> <<>>]
        ELSE AddPartials(g0, d, partials, 1)

(***************************************************************************)
(* The geometry files on disk.  They are written for the topology of the   *)
(* Geometry object (a matching header) or for a topology that differs from *)
(* it in one respect.                                                      *)
(***************************************************************************)
\* the constructor arguments: one cell holding one atom, and a supercell
\* with more atoms per cell than species
Topologies ==
    {[supercell |-> <<1, 1, 1>>, species |-> <<"Sr", "Ti", "O">>, nats |-> 1],
     [supercell |-> <<MaxExtent, 1, MaxExtent>>, species |-> <<"Sr", "Ti", "O">>,
      nats |-> MaxNats]}

\* the ways in which the header of a file disagrees with the object
Mismatches == {"nx", "ny", "nz", "nats", "nels", "species"}

Reverse(list) == [i \in 1..Len(list) |-> list[Len(list) + 1 - i]]

\* a topology that disagrees with top in the one respect kind names
Disagreeing(top, kind) ==
    [supercell |-> [i \in 1..3 |->
                       IF (kind = "nx" /\ i = 1) \/ (kind = "ny" /\ i = 2)
                          \/ (kind = "nz" /\ i = 3)
                         THEN top.supercell[i] + 1 ELSE top.supercell[i]],
     nats |-> IF kind = "nats" THEN top.nats + 1 ELSE top.nats,
     nels |-> IF kind = "nels" THEN top.nels + 1 ELSE top.nels,
     species |-> IF kind = "species"
                   THEN [top.species EXCEPT ![1] = "Ba"] ELSE top.species]

\* the r-th data row of a file of topology top (r from 1): the cell, the atom
\* number, the species field, and three numbers built from a and r
DataRow(top, a, r) ==
    LET sc == top.supercell
        j == (r - 1) % top.nats
        z == ((r - 1) \div top.nats) % sc[3]
        y == ((r - 1) \div (top.nats * sc[3])) % sc[2]
        x == (r - 1) \div (top.nats * sc[3] * sc[2])
    IN  <<x, y, z, j + 1, IF j + 1 > top.nels THEN top.nels ELSE j + 1,
          a * Unit * r, a * Unit * (r + 1), (0 - a) * Unit>>

DataRows(top, a) ==
    [r \in 1..(top.supercell[1] * top.supercell[2] * top.supercell[3] * top.nats)
        |-> DataRow(top, a, r)]

\* a .restart file: six strains, then the displacements
RestartFile(top, a) ==
    [exists |-> TRUE, supercell |-> top.supercell, counts |-> <<top.nats, top.nels>>,
     species |-> top.species, vec |-> [k \in 1..6 |-> a * Unit * k],
     rows |-> DataRows(top, a)]

\* a .REF file: nine lattice vector components, then the positions
ReferenceFile(top, a) ==
    [exists |-> TRUE, supercell |-> top.supercell, counts |-> <<top.nats, top.nels>>,
     species |-> top.species,
     vec |-> [k \in 1..9 |-> IF k \in {1, 5, 9}
                               THEN a * Unit * top.supercell[((k - 1) \div 4) + 1] + 1
                               ELSE 0],
     rows |-> DataRows(top, a)]

NoFile ==
    [exists |-> FALSE, supercell |-> <<>>, counts |-> <<>>, species |-> <<>>,
     vec |-> <<>>, rows |-> <<>>]

\* the topology of a Geometry object, as a file header states it
TopologyOf(g) ==
    [supercell |-> g.supercell, nats |-> g.nats, nels |-> g.nels, species |-> g.species]

\* the files of a run: two matching .restart files (the second lists the
\* species in another order), a .restart and a .REF file that disagree with
\* the object, a matching .REF file, and a name no file has
RestartNames == {"a.restart", "b.restart", "x.restart"}
ReferenceNames == {"ref.REF", "x.REF"}
FileNames == RestartNames \cup ReferenceNames \cup {"no.restart"}

FilesFor(g, kind) ==
    LET top == TopologyOf(g)
    IN  [n \in FileNames |->
            CASE n = "a.restart" -> RestartFile(top, 1)
              [] n = "b.restart" ->
                    RestartFile([top EXCEPT !.species = Reverse(top.species)], 2)
              [] n = "x.restart" -> RestartFile(Disagreeing(top, kind), 3)
              [] n = "ref.REF" -> ReferenceFile(top, 4)
              [] n = "x.REF" -> ReferenceFile(Disagreeing(top, kind), 5)
              [] OTHER -> NoFile]

\* the lists of partials handed to the averaging
RECURSIVE ListsUpTo(_, _)
ListsUpTo(S, n) ==
    IF n = 0 THEN {<<>>}
    ELSE LET shorter == ListsUpTo(S, n - 1)
         IN  shorter \cup {Append(l, e) : l \in shorter, e \in S}

PartialLists == ListsUpTo(RestartNames, MaxPartials)

(***************************************************************************)
(* The operations on the Geometry object.                                  *)
(***************************************************************************)
\* whether the object holds a non-zero strain or displacement
Dirty(g) ==
    \/ \E k \in 1..Len(g.strains) : g.strains[k] # 0
    \/ \E s \in DOMAIN g.displacements : \E k \in 1..3 : g.displacements[s][k] # 0

GeomInit ==
    /\ \E top \in Topologies, kind \in Mismatches :
          /\ geo = NewGeometry(top.supercell, top.species, top.nats)
          /\ disk = FilesFor(NewGeometry(top.supercell, top.species, top.nats), kind)
    /\ res = [op |-> "__init__", file |-> "", partials |-> <<>>, exc |-> "none",
              opened |-> <<>>, dirty |-> FALSE]

OpResetGeom ==
    /\ geo' = reset_geom(geo)
    /\ res' = [op |-> "reset_geom", file |-> "", partials |-> <<>>, exc |-> "none",
               opened |-> <<>>, dirty |-> Dirty(geo)]
    /\ UNCHANGED <<disk, sweepvars, confvars>>

OpLoadRestart(name) ==
    /\ \E end \in {load_restart(geo, disk, name)} :
          /\ geo' = end.geo
          /\ res' = [op |-> "load_restart", file |-> name, partials |-> <<>>,
                     exc |-> end.exc, opened |-> end.opened, dirty |-> Dirty(geo)]
    /\ UNCHANGED <<disk, sweepvars, confvars>>

OpLoadReference(name) ==
    /\ \E end \in {load_reference(geo, disk, name)} :
          /\ geo' = end.geo
          /\ res' = [op |-> "load_reference", file |-> name, partials |-> <<>>,
                     exc |-> end.exc, opened |-> end.opened, dirty |-> Dirty(geo)]
    /\ UNCHANGED <<disk, sweepvars, confvars>>

OpLoadEquilibrium(partials) ==
    /\ \E end \in {load_equilibrium_displacements(geo, disk, partials)} :
          /\ geo' = end.geo
          /\ res' = [op |-> "load_equilibrium_displacements", file |-> "",
                     partials |-> partials, exc |-> end.exc,
                     opened |-> end.opened, dirty |-> Dirty(geo)]
    /\ UNCHANGED <<disk, sweepvars, confvars>>

(***************************************************************************)
(* write_restart and write_reference.  "{:.8E}" keeps nine significant     *)
(* digits of a number; float() of the text it wrote gives that nine-digit  *)
(* number back.                                                            *)
(***************************************************************************)
Abs(v) == IF v < 0 THEN 0 - v ELSE v

\* the number of decimal digits of a positive integer
RECURSIVE DigitCount(_)
DigitCount(v) == IF v < 10 THEN 1 ELSE 1 + DigitCount(v \div 10)

\* v rounded to n significant digits, a tie going to the even digit
RoundTo(v, n) ==
    IF DigitCount(Abs(v)) <= n THEN v
    ELSE LET q == Pow10(DigitCount(Abs(v)) - n)
             kept == Abs(v) \div q
             rest == Abs(v) % q
             up == 2 * rest > q \/ (2 * rest = q /\ kept % 2 = 1)
             r == (IF up THEN kept + 1 ELSE kept) * q
         IN  IF v < 0 THEN 0 - r ELSE r

\* the digits "{:.8E}" writes after the first one
Precision == 8

\* a format that writes one digit less (a variant of Format8E the round trip
\* must tell apart)
Format7E(v) == RoundTo(v, Precision)

\* float("{:.8E}".format(v))
Format8E(v) == RoundTo(v, Precision + 1)

\* the slot of the r-th row of loops that run over the atoms outermost (a
\* variant of SlotOf the row-order property must tell apart)
SlotOfAtomOutermost(g, r) ==
    CHOOSE s \in Slots(g.supercell, g.nats) :
        s[4] * g.ncells
            + (s[1] * g.supercell[2] + s[2]) * g.supercell[3] + s[3] + 1 = r

\* the slot whose row is the r-th data row
SlotOf(g, r) == CHOOSE s \in Slots(g.supercell, g.nats) : RowOf(g, s) = r

\* a row whose species field is the atom number, however many species there
\* are (a variant of WrittenRow the species-field property must tell apart)
WrittenRowUnclamped(g, s, values) ==
    <<s[1], s[2], s[3], s[4] + 1, s[4] + 1>>
        \o [k \in 1..3 |-> Format8E(values[s][k])]

\* the row written for slot s: the cell, the atom number, the species field
\* and the three formatted numbers
WrittenRow(g, s, values) ==
    <<s[1], s[2], s[3], s[4] + 1, IF s[4] + 1 > g.nels THEN g.nels ELSE s[4] + 1>>
        \o [k \in 1..3 |-> Format8E(values[s][k])]

\* the file write_restart / write_reference leave: the header, the formatted
\* fourth line and one row per slot
WrittenFile(g, vec, values) ==
    [exists |-> TRUE, supercell |-> g.supercell, counts |-> <<g.nats, g.nels>>,
     species |-> g.species,
     vec |-> [k \in 1..Len(vec) |-> Format8E(vec[k])],
     rows |-> [r \in 1..(g.ncells * g.nats) |-> WrittenRow(g, SlotOf(g, r), values)]]

\* write_restart(restart_file): the disk and the exception it ends with, and
\* the files it called open() on
write_restart(g, d, name) ==
    [disk |-> [d EXCEPT ![name] = WrittenFile(g, g.strains, g.displacements)],
     exc |-> "none", opened |-> <<name>>]

\* an empty file, as open(name, 'wt') leaves it
EmptyFile ==
    [exists |-> TRUE, supercell |-> <<>>, counts |-> <<>>, species |-> <<>>,
     vec |-> <<>>, rows |-> <<>>]

\* a write_reference that opens the file before it looks at the positions (a
\* variant the missing-positions property must tell apart)
write_reference_opens_first(g, d, name) ==
    IF ~g.positions.given
      THEN [disk |-> [d EXCEPT ![name] = EmptyFile],
            exc |-> "PositionsNotLoaded", opened |-> <<name>>]
    ELSE [disk |-> d, exc |-> "ValueError", opened |-> <<>>]

\* write_reference(reference_file).  self.positions == None compares an
\* array with None element by element, and the truth value of an array of
\* more than one element raises ValueError.
write_reference(g, d, name) ==
    IF ~g.positions.given
      THEN [disk |-> d, exc |-> "PositionsNotLoaded", opened |-> <<>>]
    ELSE IF g.ncells * g.nats * 3 > 1
      THEN [disk |-> d, exc |-> "ValueError", opened |-> <<>>]
    ELSE [disk |-> [d EXCEPT ![name] =
                       WrittenFile(g, g.lat_vectors.val, g.positions.val)],
          exc |-> "none", opened |-> <<name>>]

OpWriteRestart(name) ==
    /\ \E end \in {write_restart(geo, disk, name)} :
          /\ disk' = end.disk
          /\ res' = [op |-> "write_restart", file |-> name, partials |-> <<>>,
                     exc |-> end.exc, opened |-> end.opened, dirty |-> Dirty(geo)]
    /\ UNCHANGED <<geo, sweepvars, confvars>>

OpWriteReference(name) ==
    /\ \E end \in {write_reference(geo, disk, name)} :
          /\ disk' = end.disk
          /\ res' = [op |-> "write_reference", file |-> name, partials |-> <<>>,
                     exc |-> end.exc, opened |-> end.opened, dirty |-> Dirty(geo)]
    /\ UNCHANGED <<geo, sweepvars, confvars>>

(***************************************************************************)
(* The files of a script that writes the geometry and reads it back.       *)
(***************************************************************************)
\* a multiple of Unit with ten digits, which "{:.8E}" does not write in full
Big == Unit * ((Pow10(Precision + 1) \div Unit) + 3)

\* a .restart file that holds numbers of ten digits
BigFile(top) ==
    [RestartFile(top, 1) EXCEPT
        !.vec = [k \in 1..6 |-> IF k % 2 = 1 THEN Big ELSE 0 - Big],
        !.rows[1] = SubSeq(@, 1, 5) \o <<Big, 0 - (Big + Unit), Unit>>]

RoundTripRestarts == {"a.restart", "big.restart", "w.restart"}
RoundTripReferences == {"ref.REF", "x.REF", "w.REF"}

\* the lists of partials the script averages
RoundTripLists == ListsUpTo({"a.restart"}, MaxPartials)

\* a matching .restart file, one with long numbers, a matching .REF file, a
\* .REF file for a grid of other nats, and the two names the script writes
RoundTripFiles(g) ==
    LET top == TopologyOf(g)
    IN  [n \in RoundTripRestarts \cup RoundTripReferences |->
            CASE n = "a.restart" -> RestartFile(top, 1)
              [] n = "big.restart" -> BigFile(top)
              [] n = "ref.REF" -> ReferenceFile(top, 4)
              [] n = "x.REF" -> ReferenceFile(Disagreeing(top, "nats"), 5)
              [] OTHER -> NoFile]

(***************************************************************************)
(* Damaged geometry files: a data row with one number or with two numbers  *)
(* after its five integer fields, a file that ends one row early, and a    *)
(* strain line with three numbers.                                         *)
(***************************************************************************)
\* the file f with the numbers of its first data row cut down to n
ShortRow(f, n) == [f EXCEPT !.rows[1] = SubSeq(@, 1, 5 + n)]

\* the file f without its last data row
Truncated(f) == [f EXCEPT !.rows = SubSeq(@, 1, Len(@) - 1)]

\* the file f with its fourth line cut down to n numbers
ShortLine(f, n) == [f EXCEPT !.vec = SubSeq(@, 1, n)]

DamagedRestarts == {"s.restart", "d.restart", "t.restart", "v.restart"}
DamagedReferences == {"s.REF", "t.REF"}

DamagedFiles(g) ==
    LET top == TopologyOf(g)
    IN  [n \in {"a.restart", "ref.REF"} \cup DamagedRestarts \cup DamagedReferences |->
            CASE n = "a.restart" -> RestartFile(top, 1)
              [] n = "s.restart" -> ShortRow(RestartFile(top, 2), 1)
              [] n = "d.restart" -> ShortRow(RestartFile(top, 3), 2)
              [] n = "t.restart" -> Truncated(RestartFile(top, 4))
              [] n = "v.restart" -> ShortLine(RestartFile(top, 5), 3)
              [] n = "ref.REF" -> ReferenceFile(top, 4)
              [] n = "s.REF" -> ShortRow(ReferenceFile(top, 5), 1)
              [] n = "t.REF" -> Truncated(ReferenceFile(top, 6))]

\* the lists of partials a script hands to the averaging among such files
DamagedLists ==
    ListsUpTo({"a.restart", "s.restart", "t.restart", "v.restart"}, MaxPartials)

(***************************************************************************)
(* A script with two MCConfiguration instances, each loading one folder;   *)
(* the blocks of the two loads interleave.                                 *)
(***************************************************************************)
Instances == {"c1", "c2"}

\* cfg.MC_EQUILIBRATION_STEPS as scripts set it
Thresholds == {20, 100, 150}

\* the instances of a script that set the threshold after its imports
ConfInit ==
    /\ cfg \in [MC_EQUILIBRATION_STEPS : Thresholds, MC_STEPS : {100},
                 MC_STEP_INTERVAL : {50}]
    /\ conf = [c \in Instances |-> NewInstance(c)]
    /\ prs = NewParsers

\* c.load(folder, base) is called
LoadCall(c, i) ==
    /\ conf[c].pc = "idle"
    /\ conf' = [conf EXCEPT ![c] = SelectBlock(conf[c], Folder(i), Folder(i).base,
                                               cfg.MC_EQUILIBRATION_STEPS)]
    /\ UNCHANGED <<cfg, prs, sweepvars, geomvars>>

\* the running load of c executes its next block
LoadStep(c) ==
    /\ conf[c].pc \in {"refp", "copy", "resp", "add", "divide"}
    /\ \E end \in {LoadBlock(conf[c], prs)} :
          /\ conf' = [conf EXCEPT ![c] = end.c]
          /\ prs' = end.p
    /\ UNCHANGED <<cfg, sweepvars, geomvars>>

\* c.lattice_output() after the load of c returned
LatticeOutput(c) ==
    /\ conf[c].pc = "done"
    /\ conf[c].outputs < 1
    /\ \E end \in {lattice_output(conf[c], prs, cfg.MC_EQUILIBRATION_STEPS)} :
          /\ conf' = [conf EXCEPT ![c] = end.c]
          /\ prs' = end.p
    /\ UNCHANGED <<cfg, sweepvars, geomvars>>

\* the configurations the Geometry object and the sweep never touch
ConfIdle ==
    /\ conf = [c \in Instances |-> NewInstance(c)]
    /\ prs = NewParsers

\* the settings of a script that touches none of them
SettingsIdle ==
    cfg = [MC_EQUILIBRATION_STEPS |-> DefaultEquilibrationSteps,
           MC_STEPS |-> 100, MC_STEP_INTERVAL |-> 50]

\* the settings of a script that sets the interval of the partial files
\* before it launches the sweep, shorter or longer than the run
SweepSettings ==
    cfg \in [MC_EQUILIBRATION_STEPS : {DefaultEquilibrationSteps},
             MC_STEPS : {100}, MC_STEP_INTERVAL : {50, 200}]

(***************************************************************************)
(* The specifications: the Geometry object and its files (Spec), the       *)
(* parameter sweep (SweepSpec) and the configuration loads (ConfSpec).     *)
(* Each leaves the state of the others alone.                              *)
(***************************************************************************)
Init == GeomInit /\ SweepInit /\ ConfIdle /\ SettingsIdle

Next ==
    \/ OpResetGeom
    \/ \E name \in RestartNames \cup {"no.restart"} : OpLoadRestart(name)
    \/ \E name \in ReferenceNames : OpLoadReference(name)
    \/ \E partials \in PartialLists : OpLoadEquilibrium(partials)

Spec == Init /\ [][Next]_vars

\* the Geometry object the sweep never touches
SweepIdle ==
    /\ geo = NewGeometry(<<1, 1, 1>>, <<"Sr", "Ti", "O">>, 1)
    /\ disk = [n \in FileNames |-> NoFile]
    /\ res = [op |-> "__init__", file |-> "", partials |-> <<>>, exc |-> "none",
              opened |-> <<>>, dirty |-> FALSE]

SweepNext ==
    \/ \E a \in LaunchArgs : Launch(a)
    \/ ParserInit
    \/ \E t \in AccessTemps, p \in AccessVecs(6), s \in AccessVecs(6),
          f \in AccessVecs(3) : Access(t, p, s, f)

SweepStart == SweepInit /\ SweepIdle /\ ConfIdle /\ SweepSettings

SweepSpec == SweepStart /\ [][SweepNext]_vars

RoundTripStart ==
    /\ \E top \in Topologies :
          /\ geo = NewGeometry(top.supercell, top.species, top.nats)
          /\ disk = RoundTripFiles(NewGeometry(top.supercell, top.species, top.nats))
    /\ res = [op |-> "__init__", file |-> "", partials |-> <<>>, exc |-> "none",
              opened |-> <<>>, dirty |-> FALSE]
    /\ SweepInit
    /\ ConfIdle
    /\ SettingsIdle

RoundTripNext ==
    \/ OpResetGeom
    \/ \E name \in RoundTripRestarts : OpLoadRestart(name)
    \/ \E name \in RoundTripReferences : OpLoadReference(name)
    \/ \E partials \in RoundTripLists : OpLoadEquilibrium(partials)
    \/ OpWriteRestart("w.restart")
    \/ OpWriteReference("w.REF")

RoundTripSpec == RoundTripStart /\ [][RoundTripNext]_vars

DamagedStart ==
    /\ \E top \in Topologies :
          /\ geo = NewGeometry(top.supercell, top.species, top.nats)
          /\ disk = DamagedFiles(NewGeometry(top.supercell, top.species, top.nats))
    /\ res = [op |-> "__init__", file |-> "", partials |-> <<>>, exc |-> "none",
              opened |-> <<>>, dirty |-> FALSE]
    /\ SweepInit
    /\ ConfIdle
    /\ SettingsIdle

DamagedNext ==
    \/ OpResetGeom
    \/ \E name \in {"a.restart"} \cup DamagedRestarts : OpLoadRestart(name)
    \/ \E name \in {"ref.REF"} \cup DamagedReferences : OpLoadReference(name)
    \/ \E partials \in DamagedLists : OpLoadEquilibrium(partials)

DamagedSpec == DamagedStart /\ [][DamagedNext]_vars

RelaunchNext == \E a \in RelaunchArgs, overwrite \in BOOLEAN : Relaunch(a, overwrite)

RelaunchSpec == SweepStart /\ [][RelaunchNext]_vars

ConfStart == ConfInit /\ SweepInit /\ SweepIdle

ConfNext ==
    \/ \E c \in Instances, i \in FolderIds : LoadCall(c, i)
    \/ \E c \in Instances : LoadStep(c)
    \/ \E c \in Instances : LatticeOutput(c)

ConfSpec == ConfStart /\ [][ConfNext]_vars

(***************************************************************************)
(* Properties of the sweep index (checked under SweepSpec).                *)
(***************************************************************************)
\* whether a registered list holds the value v
Holds(list, v) == \E i \in 1..Len(list) : list[i] = v

\* the 0-based position of v in a list that holds it
Position(list, v) ==
    CHOOSE i \in 0..(Len(list) - 1) :
        list[i + 1] = v /\ \A j \in 0..(i - 1) : list[j + 1] # v

\* the value access looks up for an argument: the zero vector when omitted
Looked(arg, dim) == IF arg.given THEN arg.val ELSE Zeros(dim)

\* every value of the call a is a member of the registered list of its axis
AllRegistered(p, a) ==
    /\ Holds(p.temp, a.t)
    /\ Holds(p.stress, Looked(a.p, 6))
    /\ Holds(p.strain, Looked(a.s, 6))
    /\ Holds(p.field, Looked(a.f, 3))

\* the positions of the four values of the call a in the registered lists
Positions(p, a) ==
    <<Position(p.temp, a.t), Position(p.stress, Looked(a.p, 6)),
      Position(p.strain, Looked(a.s, 6)), Position(p.field, Looked(a.f, 3))>>

\* n written as exactly two decimal digits
TwoDigits(n) == Digit((n \div 10) % 10) \o Digit(n % 10)

\* an argument that is omitted or is the explicit zero vector
ZeroArg(arg, dim) == ~arg.given \/ arg.val = Zeros(dim)

\* C1: access with registered values resolves the 0-based positions of its
\* four values and loads the folder name + ".c" + TTPPSSFF, each position
\* written as exactly two zero-padded digits.
C1_AccessLoadsEightDigitFolder ==
    (acc.called /\ AllRegistered(psr, acc)) =>
        /\ acc.idx = Positions(psr, acc)
        /\ mcc.folder_name =
               psr.name \o ".c" \o TwoDigits(Positions(psr, acc)[1])
                   \o TwoDigits(Positions(psr, acc)[2])
                   \o TwoDigits(Positions(psr, acc)[3])
                   \o TwoDigits(Positions(psr, acc)[4])
        /\ Len(mcc.folder_name) = Len(psr.name) + 2 + 4 * 2

\* C2: an access whose temperature, stress, strain or field is not a member
\* of the registered list of its axis raises InvalidMCConfiguration and
\* leaves the shared MCConfiguration, the parsers of its class and their
\* cells as they were before the call.
C2_UnknownValueRaisesAndKeepsParser ==
    [][(acc'.called /\ ~AllRegistered(psr', acc')) =>
           /\ acc'.exc = "InvalidMCConfiguration"
           /\ mcc' = mcc
           /\ prs' = prs]_vars

\* an access with an unregistered field after an access that loaded a folder
C2_Witness ==
    /\ acc.called
    /\ Holds(psr.temp, acc.t)
    /\ ~Holds(psr.field, Looked(acc.f, 3))
    /\ acc.exc = "InvalidMCConfiguration"
    /\ mcc.folder_name # ""
    /\ mcc.pc = "done"
    /\ prs.refp.cells = mcc.cells

\* C3: an axis omitted at launch is registered as the list of one zero
\* vector (six components for stress and strain, three for field), and an
\* access that omits the axis or passes the zero vector resolves it to
\* index 0.
C3_OmittedAxisIsOneZeroVector ==
    /\ sim.launched =>
          /\ ~sim.args.stress.given => sim.stress = << <<0, 0, 0, 0, 0, 0>> >>
          /\ ~sim.args.strain.given => sim.strain = << <<0, 0, 0, 0, 0, 0>> >>
          /\ ~sim.args.field.given => sim.field = << <<0, 0, 0>> >>
    /\ (acc.called /\ acc.exc # "InvalidMCConfiguration") =>
          /\ (~sim.args.stress.given /\ ZeroArg(acc.p, 6)) => acc.idx[2] = 0
          /\ (~sim.args.strain.given /\ ZeroArg(acc.s, 6)) => acc.idx[3] = 0
          /\ (~sim.args.field.given /\ ZeroArg(acc.f, 3)) => acc.idx[4] = 0
    /\ (/\ acc.called
        /\ Holds(psr.temp, acc.t)
        /\ ~sim.args.stress.given /\ ZeroArg(acc.p, 6)
        /\ ~sim.args.strain.given /\ ZeroArg(acc.s, 6)
        /\ ~sim.args.field.given /\ ZeroArg(acc.f, 3))
          => acc.exc # "InvalidMCConfiguration"

C3_Witness ==
    /\ acc.called
    /\ ~sim.args.stress.given /\ acc.p = Some(Zeros(6))
    /\ ~sim.args.strain.given /\ acc.s = NoArg
    /\ ~sim.args.field.given /\ acc.f = Some(Zeros(3))
    /\ acc.exc = "none"
    /\ acc.idx = <<1, 0, 0, 0>>
    /\ mcc.folder_name = "sim.c01000000"

\* the values of a list are pairwise distinct
Distinct(list) == Cardinality({list[i] : i \in 1..Len(list)}) = Len(list)

\* C4: for axis lists of pairwise distinct values every combination launch
\* simulates is stored in a subfolder of its own, and access with the same
\* four values loads that subfolder under the base name launch gave it.
C4_SweepMappingBidirectional ==
    /\ (/\ sim.launched
        /\ Distinct(sim.temp) /\ Distinct(sim.stress)
        /\ Distinct(sim.strain) /\ Distinct(sim.field))
          => /\ sim.exc = "none"
             /\ sim.simulated = NSims(sim)
             /\ Cardinality(out.folders) = sim.simulated
             /\ Cardinality({r.folder : r \in out.folders}) = sim.simulated
    /\ (acc.called /\ AllRegistered(psr, acc)) =>
          \E r \in out.folders :
              /\ r.combo = <<acc.t, Looked(acc.p, 6), Looked(acc.s, 6), Looked(acc.f, 3)>>
              /\ r.folder = mcc.folder_name
              /\ r.base = mcc.name

(***************************************************************************)
(* Properties of the Geometry loaders (checked under Spec).                *)
(***************************************************************************)
\* the header of file f disagrees with the object in the supercell, the
\* atoms per cell, the species count or the set of species labels
FileDisagrees(g, f) ==
    \/ f.supercell # g.supercell
    \/ f.counts[1] # g.nats
    \/ f.counts[2] # Len(g.species)
    \/ {f.species[i] : i \in 1..Len(f.species)} # {g.species[i] : i \in 1..Len(g.species)}

AllZero(g) ==
    /\ g.strains = <<0, 0, 0, 0, 0, 0>>
    /\ \A s \in DOMAIN g.displacements : g.displacements[s] = <<0, 0, 0>>

\* C5: each loader raises GeometryNotMatching exactly when the header of a
\* file it reads disagrees with the object in supercell (component by
\* component), atoms per cell, species count or species set; the same labels
\* in another order are accepted.
C5_HeaderDecidesRejection ==
    /\ (res.op \in {"load_restart", "load_reference"} /\ disk[res.file].exists) =>
          (res.exc = "GeometryNotMatching" <=> FileDisagrees(geo, disk[res.file]))
    /\ (res.op = "load_equilibrium_displacements" /\ res.partials # <<>>) =>
          (res.exc = "GeometryNotMatching" <=>
              \E k \in 1..Len(res.partials) : FileDisagrees(geo, disk[res.partials[k]]))

C5_Witness ==
    /\ res.op = "load_equilibrium_displacements"
    /\ Len(res.partials) = 2
    /\ disk[res.partials[1]].species # geo.species
    /\ ~FileDisagrees(geo, disk[res.partials[1]])
    /\ disk[res.partials[2]].supercell # geo.supercell
    /\ res.opened = res.partials
    /\ res.exc = "GeometryNotMatching"

\* the last operation was a load_restart that rejected a file whose header
\* supercell differs from the object's (primed: the operation of this step)
RestartSupercellRejected ==
    /\ res.op = "load_restart"
    /\ disk[res.file].exists
    /\ disk[res.file].supercell # geo.supercell

\* C6 as stated: load_restart of a file whose header supercell differs fails
\* with GeometryNotMatching and leaves strains and displacements as they were
\* before the call.
C6_RejectedRestartKeepsState ==
    [][RestartSupercellRejected' =>
           /\ res'.exc = "GeometryNotMatching"
           /\ geo'.strains = geo.strains
           /\ geo'.displacements = geo.displacements]_vars

\* C6 amended: load_restart of a file whose header supercell differs fails
\* with GeometryNotMatching and leaves strains and displacements all zero,
\* whatever they were before the call; nothing else of the object changes.
C6_RejectedRestartClearsState ==
    [][RestartSupercellRejected' =>
           /\ res'.exc = "GeometryNotMatching"
           /\ AllZero(geo')
           /\ geo' = [geo EXCEPT !.strains = geo'.strains,
                                 !.displacements = geo'.displacements]]_vars

C6_Witness ==
    /\ RestartSupercellRejected
    /\ res.exc = "GeometryNotMatching"
    /\ res.dirty
    /\ AllZero(geo)
    /\ geo.positions.given

\* C7: when load_restart or load_reference raises GeometryNotMatching,
\* supercell, species, nats, positions, lattice vectors and lattice constants
\* are as before the call, and strains and displacements are unchanged or
\* all zero, never the values of the rejected file.
C7_RejectionFrame ==
    [][(res'.op \in {"load_restart", "load_reference"}
          /\ res'.exc = "GeometryNotMatching") =>
           /\ geo'.supercell = geo.supercell
           /\ geo'.ncells = geo.ncells
           /\ geo'.species = geo.species
           /\ geo'.nels = geo.nels
           /\ geo'.nats = geo.nats
           /\ geo'.positions = geo.positions
           /\ geo'.lat_vectors = geo.lat_vectors
           /\ geo'.lat_constants = geo.lat_constants
           /\ geo'.strains = geo.strains \/ geo'.strains = <<0, 0, 0, 0, 0, 0>>
           /\ \/ geo'.displacements = geo.displacements
              \/ \A s \in DOMAIN geo'.displacements :
                     geo'.displacements[s] = <<0, 0, 0>>
           /\ geo'.strains # disk[res'.file].vec
           /\ \A s \in DOMAIN geo'.displacements :
                  RowOf(geo, s) <= Len(disk[res'.file].rows) =>
                      geo'.displacements[s] # RowTail(disk[res'.file].rows[RowOf(geo, s)])]_vars

C7_Witness ==
    /\ res.op = "load_reference"
    /\ res.exc = "GeometryNotMatching"
    /\ res.dirty
    /\ ~AllZero(geo)
    /\ geo.positions.given

\* the sum over the files of (the file's value / n)
RECURSIVE SumOfShares(_, _, _)
SumOfShares(vals, n, i) ==
    IF i > Len(vals) THEN 0 ELSE (vals[i] \div n) + SumOfShares(vals, n, i + 1)

\* the c-th displacement component file name holds for slot s
FileValue(name, s, c) == disk[name].rows[RowOf(geo, s)][5 + c]

\* C8: after a successful averaging of N >= 1 files every strain and every
\* displacement component is the sum over the files of (file value / N),
\* whatever the object held before; N files holding the same values yield
\* those values.
C8_AveragingIsSumOfShares ==
    (res.op = "load_equilibrium_displacements" /\ res.exc = "none") =>
        LET N == Len(res.partials)
        IN  /\ N >= 1
            /\ \A k \in 1..6 :
                   geo.strains[k] =
                       SumOfShares([i \in 1..N |-> disk[res.partials[i]].vec[k]], N, 1)
            /\ \A s \in DOMAIN geo.displacements : \A c \in 1..3 :
                   geo.displacements[s][c] =
                       SumOfShares([i \in 1..N |-> FileValue(res.partials[i], s, c)], N, 1)
            /\ (\A i \in 1..N : res.partials[i] = res.partials[1]) =>
                   /\ geo.strains = disk[res.partials[1]].vec
                   /\ \A s \in DOMAIN geo.displacements : \A c \in 1..3 :
                          geo.displacements[s][c] = FileValue(res.partials[1], s, c)

C8_Witness ==
    /\ res.op = "load_equilibrium_displacements"
    /\ res.exc = "none"
    /\ Len(res.partials) = MaxPartials
    /\ res.partials[1] # res.partials[2]
    /\ res.dirty
    /\ Cardinality(DOMAIN geo.displacements) > 1
    /\ geo.strains[1] * 2 = disk["a.restart"].vec[1] + disk["b.restart"].vec[1]

\* C9: an averaging that fails on a file after the first leaves no
\* contribution of the files before it: strains and displacements are all
\* zero.
C9_AveragingAllOrNothing ==
    (/\ res.op = "load_equilibrium_displacements"
     /\ res.exc = "GeometryNotMatching"
     /\ Len(res.opened) > 1) => AllZero(geo)

\* C10: an averaging of an empty list raises NotEnoughPartials, opens no
\* file, leaves strains and displacements all zero and nothing else of the
\* object changed.
C10_EmptyListRaises ==
    [][(res'.op = "load_equilibrium_displacements" /\ res'.partials = <<>>) =>
           /\ res'.exc = "NotEnoughPartials"
           /\ res'.opened = <<>>
           /\ AllZero(geo')
           /\ geo'.positions = geo.positions
           /\ geo'.lat_vectors = geo.lat_vectors
           /\ geo'.lat_constants = geo.lat_constants
           /\ geo' = [geo EXCEPT !.strains = geo'.strains,
                                 !.displacements = geo'.displacements]]_vars

C10_Witness ==
    /\ res.op = "load_equilibrium_displacements"
    /\ res.partials = <<>>
    /\ res.exc = "NotEnoughPartials"
    /\ res.dirty
    /\ AllZero(geo)
    /\ geo.positions.given

(***************************************************************************)
(* Claims about MCConfiguration.load and lattice_output.                   *)
(***************************************************************************)
\* the instance went past the selection of its load and no lattice_output
\* has been called on it
Selected(c) == conf[c].pc \notin {"idle", "failed"} /\ conf[c].outputs = 0

\* the load of the instance returned
Returned(c) == conf[c].pc = "done"

\* the partial .restart files the simulator wrote into the folder of c
Snapshots(c) ==
    {PartialName(conf[c].folder.base, s) : s \in conf[c].folder.steps}

\* the snapshots of the folder of c whose step is above threshold
SnapshotsAbove(c, threshold) ==
    {PartialName(conf[c].folder.base, s) :
        s \in {t \in conf[c].folder.steps : t > threshold}}

\* C11: load sets total_steps to the largest step number of the partial
\* files; when the configured threshold is not below it the threshold
\* becomes a fifth of total_steps, rounded down, and load goes on without an
\* exception; otherwise the configured threshold is kept.
C11_ThresholdFallsBackToFifth ==
    \A c \in Instances :
        Selected(c) =>
            /\ conf[c].exc = "none"
            /\ conf[c].total_steps = Largest(conf[c].folder.steps)
            /\ cfg.MC_EQUILIBRATION_STEPS >= conf[c].total_steps
                  => conf[c].step_threshold * 5 <= conf[c].total_steps
                     /\ conf[c].total_steps < (conf[c].step_threshold + 1) * 5
            /\ cfg.MC_EQUILIBRATION_STEPS < conf[c].total_steps
                  => conf[c].step_threshold = cfg.MC_EQUILIBRATION_STEPS

\* 100 steps in total and a configured threshold of 150: the load returned
\* with a threshold of 20
C11_Witness ==
    \E c \in Instances :
        /\ Returned(c) /\ conf[c].outputs = 0
        /\ cfg.MC_EQUILIBRATION_STEPS = 150
        /\ conf[c].total_steps = 100
        /\ conf[c].step_threshold = 20

\* C12: the files a load averages are exactly the files of the folder whose
\* name holds 'partial' and '.restart' and whose step is strictly above the
\* effective threshold, each once, in ascending order of their names.
C12_AveragedFilesAreThoseAboveThreshold ==
    \A c \in Instances :
        Returned(c) /\ conf[c].outputs = 0 =>
            /\ {conf[c].loaded[k] : k \in 1..Len(conf[c].loaded)}
                  = SnapshotsAbove(c, conf[c].step_threshold)
            /\ Len(conf[c].loaded) = Cardinality(SnapshotsAbove(c, conf[c].step_threshold))
            /\ \A j, k \in 1..Len(conf[c].loaded) :
                  j < k => NameLess(conf[c].loaded[j], conf[c].loaded[k])

\* a folder with snapshots of steps 20, 50 and 100 loaded with threshold 20:
\* the snapshot of step 20 is left out and the two others are averaged
C12_Witness ==
    \E c \in Instances :
        /\ Returned(c) /\ conf[c].outputs = 0
        /\ conf[c].step_threshold = 20
        /\ 20 \in conf[c].folder.steps
        /\ Len(conf[c].loaded) = 2
        /\ cfg.MC_EQUILIBRATION_STEPS = 20

\* the load of the instance ended, by returning or by an exception
Ended(c) == conf[c].pc \in {"done", "failed"}

\* C13: a load on a folder that holds no partial file, or none above the
\* threshold, fails with NotEnoughPartials and returns no average of zero
\* snapshots.
C13_NoSnapshotRaisesNotEnoughPartials ==
    \A c \in Instances :
        Ended(c) /\ conf[c].outputs = 0
                 /\ (Snapshots(c) = {} \/ SnapshotsAbove(c, conf[c].step_threshold) = {})
            => conf[c].pc = "failed" /\ conf[c].exc = "NotEnoughPartials"

\* C14: once load returned, and after any later lattice_output, total_steps
\* is the largest step of the folder, step_threshold is the effective
\* threshold of the load, and nmeas is the number of partial files whose
\* step is above step_threshold.
C14_MetadataStaysConsistent ==
    \A c \in Instances :
        Returned(c) =>
            /\ conf[c].total_steps = Largest(conf[c].folder.steps)
            /\ conf[c].step_threshold
                  = IF cfg.MC_EQUILIBRATION_STEPS >= conf[c].total_steps
                      THEN conf[c].total_steps \div 5
                    ELSE cfg.MC_EQUILIBRATION_STEPS
            /\ conf[c].nmeas = Cardinality(SnapshotsAbove(c, conf[c].step_threshold))

\* what a caller reads from an instance after load, its cells in the object
\* the instance is bound to
Observed(c, p) ==
    [name |-> c.name, folder_name |-> c.folder_name, partials |-> c.partials,
     nmeas |-> c.nmeas, total_steps |-> c.total_steps,
     step_threshold |-> c.step_threshold, supercell |-> c.supercell,
     elements |-> c.elements, nats |-> c.nats, strains |-> c.strains,
     cells |-> CellsAt(p, c.cells), special |-> c.special, exc |-> c.exc]

\* C18: two loads on two instances against different folders, interleaved in
\* any order, leave each instance as a load running alone leaves it.
C18_InterleavedLoadsAreIndependent ==
    \A c, d \in Instances :
        (/\ c # d
         /\ Ended(c) /\ Ended(d)
         /\ conf[c].outputs = 0 /\ conf[d].outputs = 0
         /\ conf[c].folder # conf[d].folder)
            => \E alone \in {LoadAlone(conf[c].folder, cfg.MC_EQUILIBRATION_STEPS)} :
                  Observed(conf[c], prs) = Observed(alone.c, alone.p)

\* C19: the configuration access(t1) returned keeps its folder name when a
\* later access(t2) is made.
C19_ReturnedConfigurationIsKept ==
    [][(acc.called /\ acc.exc = "none" /\ mcc.exc = "none")
           => mcc'.folder_name = mcc.folder_name]_vars

(***************************************************************************)
(* Claims about write_restart and write_reference.                         *)
(***************************************************************************)
\* b is a within half a unit of the ninth significant digit of a
Close(a, b) == Abs(b - a) * 2 * Pow10(Precision) <= Abs(a)

\* C15: write_restart followed by load_restart of the file written, into a
\* grid of the same topology, succeeds and gives back the strains and every
\* displacement up to the eight decimals of the format.
C15_RestartRoundTrip ==
    [][(/\ res.op = "write_restart" /\ res.exc = "none"
        /\ res'.op = "load_restart" /\ res'.file = res.file)
           => /\ res'.exc = "none"
              /\ Len(geo'.strains) = Len(geo.strains)
              /\ \A k \in 1..Len(geo.strains) : Close(geo.strains[k], geo'.strains[k])
              /\ \A s \in Slots(geo.supercell, geo.nats) : \A k \in 1..3 :
                    Close(geo.displacements[s][k], geo'.displacements[s][k])]_vars

\* the file written from an object holding ten-digit numbers has been read
\* back: the object holds the nine-digit numbers of the file
C15_Witness ==
    /\ res.op = "load_restart" /\ res.file = "w.restart" /\ res.exc = "none"
    /\ geo.strains = disk["w.restart"].vec
    /\ geo.strains[1] >= Pow10(Precision + 1)
    /\ geo.strains[1] # disk["big.restart"].vec[1]
    /\ \E s \in Slots(geo.supercell, geo.nats) :
          geo.displacements[s][1] >= Pow10(Precision + 1)

\* C16: for a grid whose positions were loaded by load_reference,
\* write_reference followed by load_reference gives back the supercell, the
\* species, nats, the lattice vectors and the positions.
C16_ReferenceRoundTrip ==
    (res.op = "write_reference" /\ geo.positions.given) =>
        /\ res.exc = "none"
        /\ disk[res.file].exists
        /\ LET back == load_reference(
                          NewGeometry(geo.supercell, geo.species, geo.nats),
                          disk, res.file)
           IN  /\ back.exc = "none"
               /\ back.geo.lat_vectors.given /\ back.geo.positions.given
               /\ \A k \in 1..Len(geo.lat_vectors.val) :
                     Close(geo.lat_vectors.val[k], back.geo.lat_vectors.val[k])
               /\ \A s \in Slots(geo.supercell, geo.nats) : \A k \in 1..3 :
                     Close(geo.positions.val[s][k], back.geo.positions.val[s][k])

\* C17: write_reference on a grid whose positions are unset raises
\* PositionsNotLoaded before the file is opened: no file is created or
\* overwritten.
C17_MissingPositionsWriteNothing ==
    [][(res'.op = "write_reference" /\ ~geo.positions.given)
           => /\ res'.exc = "PositionsNotLoaded"
              /\ res'.opened = <<>>
              /\ disk' = disk
              /\ geo' = geo]_vars

\* write_reference was called on a grid without positions, after a .restart
\* file gave it strains
C17_Witness ==
    /\ res.op = "write_reference" /\ res.file = "w.REF"
    /\ ~geo.positions.given
    /\ res.exc = "PositionsNotLoaded"
    /\ ~disk["w.REF"].exists
    /\ Dirty(geo)

(***************************************************************************)
(* Claims about damaged geometry files.                                    *)
(***************************************************************************)
\* the file has fewer data rows than the grid has slots, or a data row with
\* fewer than three numbers after its five integer fields
Malformed(g, f) ==
    /\ f.exists
    /\ \/ Len(f.rows) < g.ncells * g.nats
       \/ \E r \in 1..Len(f.rows) : Len(f.rows[r]) < 5 + 3

\* C20: a loader that opens a file with a short data row or with too few
\* data rows fails with the malformed-file error; no such file is loaded
\* successfully.
C20_MalformedFileIsRejected ==
    (/\ res.op \in {"load_restart", "load_reference", "load_equilibrium_displacements"}
     /\ \E k \in 1..Len(res.opened) : Malformed(geo, disk[res.opened[k]]))
        => res.exc = "MalformedGeometryFile"

(***************************************************************************)
(* Claims about the frame and the invariants of the Geometry object.       *)
(***************************************************************************)
\* the object as the constructor leaves it, with the topology of g
Fresh(g) == NewGeometry(g.supercell, g.species, g.nats)

\* C21: load_reference, load_restart and load_equilibrium_displacements
\* reset strains and displacements first: after a successful call they are
\* what the same call leaves on a freshly constructed object, and after
\* load_reference they are all zero.
C21_LoadersResetFirst ==
    /\ (res.op = "load_reference" /\ res.exc = "none") => AllZero(geo)
    /\ (res.op = "load_restart" /\ res.exc = "none") =>
          LET alone == load_restart(Fresh(geo), disk, res.file).geo
          IN  geo.strains = alone.strains /\ geo.displacements = alone.displacements
    /\ (res.op = "load_equilibrium_displacements" /\ res.exc = "none") =>
          LET alone == load_equilibrium_displacements(Fresh(geo), disk, res.partials).geo
          IN  geo.strains = alone.strains /\ geo.displacements = alone.displacements

(***************************************************************************)
(* Claims about the output folder of launch.                               *)
(***************************************************************************)
\* the combinations of the axis lists r: one value of each list
Product(r) == SetOf(r.temp) \X SetOf(r.stress) \X SetOf(r.strain) \X SetOf(r.field)

\* C22: a launch that finds an output folder returns without simulating and
\* leaves the folder as it is when OVERWRITE is False; when OVERWRITE is True
\* the folder afterwards holds nothing but subfolders of combinations of the
\* current run and, when the launch completed, one for every combination and
\* the setup record of the current run.
C22_ExistingFolderKeptOrReplaced ==
    [][out.exists =>
          IF ~sim'.OVERWRITE
            THEN out' = out /\ sim'.simulated = 0 /\ sim'.exc = "none"
          ELSE /\ \A f \in out'.folders : f.combo \in Product(sim')
               /\ sim'.exc = "none" =>
                     /\ {f.combo : f \in out'.folders} = Product(sim')
                     /\ out'.setup = Some(SetupRecord(sim'))]_vars

\* an overwriting launch completed in a folder that held subfolders of
\* another sweep
C22_Witness ==
    /\ sim.OVERWRITE /\ sim.found /\ sim.launched /\ sim.exc = "none"
    /\ Len(sim.temp) = MaxTempLen
    /\ Len(sim.field) = 1
    /\ out.setup = Some(SetupRecord(sim))
    /\ sim.simulated = Cardinality(out.folders)

\* C27: the setup record is written only after the last combination was
\* simulated and stored: whenever the output folder holds a setup record it
\* holds a subfolder for every combination of the recorded axis lists, the
\* launch that wrote it simulated every combination, and a launch that
\* aborted leaves no setup record.
C27_SetupRecordMeansCompleteSweep ==
    /\ out.setup.given =>
          /\ Product(out.setup.val) = {f.combo : f \in out.folders}
          /\ out.setup.val = SetupRecord(sim) => sim.simulated = NSims(sim)
    /\ sim.exc # "none" => ~out.setup.given

\* an overwriting launch aborted after it stored a subfolder: the setup record
\* of the earlier run is gone and none was written
C27_Witness ==
    /\ sim.launched /\ sim.found /\ sim.OVERWRITE
    /\ sim.exc = "FileExistsError"
    /\ out.folders # {}
    /\ ~out.setup.given

\* a list of pairwise distinct values, no longer than the indices of PadWidth
\* digits reach
Within(list) == Distinct(list) /\ Len(list) <= Pow10(PadWidth)

\* name followed by ".c" and exactly eight decimal digits
EightDigitName(folder, name) ==
    /\ Len(folder) = Len(name) + 2 + 8
    /\ SubSeq(folder, 1, Len(name) + 2) = name \o ".c"
    /\ IsNumber(SubSeq(folder, Len(name) + 3, Len(folder)))

\* C28: when every axis list holds pairwise distinct values and at most 100
\* of them, every folder name is the name, ".c" and exactly eight digits, and
\* no two combinations share a folder name, in launch and in access.
C28_ShortDistinctAxesGiveInjectiveNames ==
    /\ (/\ sim.launched
        /\ Within(sim.temp) /\ Within(sim.stress)
        /\ Within(sim.strain) /\ Within(sim.field))
          => /\ sim.exc = "none"
             /\ Cardinality(out.folders) = NSims(sim)
             /\ \A r \in out.folders : EightDigitName(r.folder, sim.name)
             /\ \A r1, r2 \in out.folders : r1.folder = r2.folder => r1.combo = r2.combo
    /\ (/\ acc.called /\ AllRegistered(psr, acc)
        /\ Within(psr.temp) /\ Within(psr.stress)
        /\ Within(psr.strain) /\ Within(psr.field))
          => /\ EightDigitName(mcc.folder_name, psr.name)
             /\ \A r \in out.folders :
                   r.folder = mcc.folder_name <=>
                       r.combo = <<acc.t, Looked(acc.p, 6), Looked(acc.s, 6), Looked(acc.f, 3)>>

\* the last of 100 temperatures was accessed: its index takes both digits
C28_Witness ==
    /\ sim.launched /\ Len(sim.temp) = Pow10(PadWidth) /\ sim.exc = "none"
    /\ acc.called /\ acc.exc = "none"
    /\ acc.t = TempAt(Pow10(PadWidth))
    /\ mcc.folder_name = "sim.c99000000"

\* C29: when the folder holds a partial file and its largest step is
\* positive, load ends with a step_threshold strictly below total_steps,
\* whatever the configured threshold: the file of the largest step is among
\* the files averaged and nmeas is at least 1.
C29_LastSnapshotAlwaysSelected ==
    \A c \in Instances :
        (/\ Returned(c) /\ conf[c].outputs = 0
         /\ conf[c].folder.steps # {}
         /\ Largest(conf[c].folder.steps) > 0)
            => /\ conf[c].step_threshold < conf[c].total_steps
               /\ conf[c].nmeas >= 1
               /\ \E k \in 1..Len(conf[c].loaded) :
                     conf[c].loaded[k]
                        = PartialName(conf[c].folder.base,
                                      Largest(conf[c].folder.steps))

\* a load with a configured threshold equal to the largest step returned: the
\* threshold it used is a fifth of it and the last snapshot was averaged
C29_Witness ==
    \E c \in Instances :
        /\ Returned(c) /\ conf[c].outputs = 0
        /\ cfg.MC_EQUILIBRATION_STEPS = conf[c].total_steps
        /\ conf[c].total_steps > 0
        /\ conf[c].step_threshold * 5 = conf[c].total_steps
        /\ conf[c].loaded # <<>>
        /\ conf[c].loaded[Len(conf[c].loaded)]
              = PartialName(conf[c].folder.base, conf[c].total_steps)

\* C30: averaging the one file f is the same as loading it: for every
\* .restart file and every state of the object, load_restart(f) and
\* load_equilibrium_displacements([f]) fail in the same cases and, when they
\* succeed, leave the same object.
C30_AveragingOneFileIsLoadingIt ==
    \A name \in {"a.restart"} \cup DamagedRestarts :
        LET loaded == load_restart(geo, disk, name)
            averaged == load_equilibrium_displacements(geo, disk, <<name>>)
        IN  /\ (loaded.exc = "none") <=> (averaged.exc = "none")
            /\ loaded.exc = averaged.exc
            /\ loaded.exc = "none" => loaded.geo = averaged.geo

(***************************************************************************)
(* Claims about the layout of the files written.                           *)
(***************************************************************************)
\* write_restart or write_reference has just written the file res.file
Written == res.op \in {"write_restart", "write_reference"} /\ res.exc = "none"

\* the array the file res.file was written from
WrittenFrom == IF res.op = "write_restart" THEN geo.displacements ELSE geo.positions.val

\* the array a freshly constructed object of the same topology holds after
\* it loaded the file res.file
ReadBack ==
    IF res.op = "write_restart"
      THEN load_restart(Fresh(geo), disk, res.file).geo.displacements
    ELSE load_reference(Fresh(geo), disk, res.file).geo.positions.val

\* row a comes before row b when x, then y, then z, then the atom number
\* decide
RowBefore(a, b) ==
    \E i \in 1..4 : a[i] < b[i] /\ \A j \in 1..(i - 1) : a[j] = b[j]

\* C23: a file written holds nx*ny*nz*nats data rows, one for every cell and
\* atom, ordered with x outermost, then y, then z, then the atom (4th field =
\* atom index + 1); a load gives the numbers of every row back to the slot
\* the row was written from.
C23_RowsInLoopOrderReturnToTheirSlot ==
    Written =>
        LET f == disk[res.file]
        IN  /\ Len(f.supercell) = 3 /\ Len(f.counts) = 2
            /\ Len(f.rows) = geo.supercell[1] * geo.supercell[2] * geo.supercell[3] * geo.nats
            /\ \A r \in 1..Len(f.rows) :
                  /\ <<f.rows[r][1], f.rows[r][2], f.rows[r][3], f.rows[r][4] - 1>>
                        \in Slots(geo.supercell, geo.nats)
                  /\ r < Len(f.rows) => RowBefore(f.rows[r], f.rows[r + 1])
                  /\ LET s == <<f.rows[r][1], f.rows[r][2], f.rows[r][3], f.rows[r][4] - 1>>
                     IN  /\ ReadBack[s] = RowTail(f.rows[r])
                         /\ \A k \in 1..3 : Close(WrittenFrom[s][k], ReadBack[s][k])

\* a file was written from a grid of several cells and atoms whose slots hold
\* different numbers
C23_Witness ==
    /\ res.op = "write_restart" /\ res.exc = "none"
    /\ geo.ncells > 1 /\ geo.nats > 1
    /\ \A s, t \in Slots(geo.supercell, geo.nats) :
          s # t => geo.displacements[s] # geo.displacements[t]

\* C24: in every data row written the 5th field is min(j + 1, nels) for the
\* atom index j of the row: it lies in 1..nels and is nels for every atom
\* with j + 1 > nels.
C24_SpeciesFieldIsClamped ==
    Written =>
        \A r \in 1..Len(disk[res.file].rows) :
            LET row == disk[res.file].rows[r]
            IN  /\ row[5] = (IF row[4] < geo.nels THEN row[4] ELSE geo.nels)
                /\ row[5] \in 1..geo.nels
                /\ row[4] > geo.nels => row[5] = geo.nels

\* a file was written for a grid with more atoms per cell than species
C24_Witness ==
    /\ res.op = "write_restart" /\ res.exc = "none"
    /\ geo.nats > geo.nels
    /\ \E r \in 1..Len(disk[res.file].rows) :
          disk[res.file].rows[r][4] > geo.nels /\ disk[res.file].rows[r][5] = geo.nels

\* the topology of the object is consistent
TopologyConsistent ==
    /\ geo.ncells = geo.supercell[1] * geo.supercell[2] * geo.supercell[3]
    /\ geo.nels = Len(geo.species)

\* C25: no reset_geom, load or write call, whether it succeeds or fails,
\* changes supercell, species, nats, ncells or nels, and ncells = nx*ny*nz
\* and nels = number of species hold in every state.
C25_TopologyIsImmutable ==
    /\ TopologyConsistent
    /\ [][/\ geo'.supercell = geo.supercell /\ geo'.species = geo.species
          /\ geo'.nats = geo.nats /\ geo'.ncells = geo.ncells
          /\ geo'.nels = geo.nels
          /\ TopologyConsistent']_vars

\* a grid of several cells went through a failed load and a write
C25_Witness ==
    /\ geo.ncells > geo.supercell[1]
    /\ res.op = "load_reference" /\ res.exc = "GeometryNotMatching"
    /\ disk["w.restart"].exists
    /\ Dirty(geo)

\* C26: a Geometry starts with zero strains and displacements and without
\* positions and lattice data; in every state the displacements hold one
\* 3-vector for every (x, y, z, atom) of the grid, and once a load_reference
\* succeeded the positions do too.
C26_GridsCoverEverySlot ==
    /\ res.op = "__init__" =>
          /\ AllZero(geo)
          /\ ~geo.positions.given /\ ~geo.lat_vectors.given /\ ~geo.lat_constants.given
    /\ DOMAIN geo.displacements = Slots(geo.supercell, geo.nats)
    /\ \A s \in Slots(geo.supercell, geo.nats) : Len(geo.displacements[s]) = 3
    /\ (res.op = "load_reference" /\ res.exc = "none") =>
          /\ geo.positions.given
          /\ DOMAIN geo.positions.val = Slots(geo.supercell, geo.nats)
          /\ \A s \in Slots(geo.supercell, geo.nats) : Len(geo.positions.val[s]) = 3

\* a .REF file whose first row holds one number was loaded into a grid of
\* several cells
C26_Witness ==
    /\ res.op = "load_reference" /\ res.file = "s.REF" /\ res.exc = "none"
    /\ geo.ncells > 1
    /\ geo.positions.given
    /\ Dirty(geo)

====
